---- MODULE Spec2Model ----
(***************************************************************************)
(* Webhook ingestion pipeline of the LINE calendar/file assistant:         *)
(* handleWebhook fans a batch of platform events out to handleEvent, and   *)
(* processMessage deduplicates, persists, extracts an event through the AI *)
(* service, materialises it and replies.  Every await of the source is one *)
(* step of a handler; the datastore (D1/SQLite) executes one statement     *)
(* atomically and enforces its UNIQUE constraints.                         *)
(*                                                                         *)
(* String literals of the source that are written in Chinese are rendered  *)
(* here by ASCII strings (the English sense of the literal).               *)
(***************************************************************************)
EXTENDS Integers, Sequences, FiniteSets, TLC

VARIABLES
    messages,        \* rows of table messages, in insertion order (id = index)
    calendarEvents,  \* rows of table calendar_events (id = index)
    files,           \* rows of table files
    storage,         \* object-storage paths written by FileController.createFile
    pushes,          \* push messages accepted by the platform
    requests,        \* webhook requests: batch size and the route's answer
    handlers,        \* one handleEvent promise per delivered event
    faults,          \* environment failures so far
    clock,           \* milliseconds; read by new Date()
    calls            \* the RPC requests answered so far, with their outcome

vars == <<messages, calendarEvents, files, storage, pushes, requests, handlers,
          faults, clock, calls>>

----------------------------------------------------------------------------
(* Bounds of the model *)

MaxEvents == 2
MaxRequests == 2
MaxFaults == 2
MaxCalls == 2

NULL == "null"

----------------------------------------------------------------------------
(* webhook/constants.ts *)

WEBHOOK_RESPONSE ==
    [SUCCESS |-> "OK", INVALID_REPLY_TOKEN |-> "Reply token has expired or invalid"]

TEXT_MESSAGE_TYPE == "text"

(* lib/ai.ts *)
DEFAULT_EVENT_DURATION_HOURS == 1

(* lib/messagt.ts: the text pushed to a group the bot has joined *)
welcomeMessage == "welcome"

----------------------------------------------------------------------------
(* Platform events.  A message id names one message of the platform, so a   *)
(* re-delivery carries the same event.                                      *)

Source(type, userId, groupId, roomId) ==
    [type |-> type, userId |-> userId, groupId |-> groupId, roomId |-> roomId]

MessageEvent(id, mtype, source, text, quoted, isSelf) ==
    [type |-> "message", id |-> id, mtype |-> mtype, source |-> source,
     text |-> text, quotedMessageId |-> quoted, isSelf |-> isSelf]

OtherEvent(type, source) ==
    [type |-> type, id |-> NULL, mtype |-> NULL, source |-> source,
     text |-> <<>>, quotedMessageId |-> NULL, isSelf |-> FALSE]

EventMenu ==
    { OtherEvent("join", Source("group", NULL, "Gx", NULL)),
      OtherEvent("follow", Source("user", "U1", NULL, NULL)),
      \* a personal text message
      MessageEvent("m1", "text", Source("user", "U1", NULL, NULL), <<"t1">>, NULL, FALSE),
      \* a group text message that mentions the bot and quotes m3
      MessageEvent("m2", "text", Source("group", "U2", "G1", NULL), <<"t2">>, "m3", TRUE),
      \* a group text message that does not mention the bot
      MessageEvent("m3", "text", Source("group", "U1", "G1", NULL), <<"t3">>, NULL, FALSE),
      \* an image sent in a room, without any mention
      MessageEvent("m4", "image", Source("room", "U2", NULL, "R1"), <<>>, NULL, FALSE),
      \* a sticker: neither text nor one of FILE_MESSAGE_TYPES
      MessageEvent("m5", "sticker", Source("user", "U1", NULL, NULL), <<>>, NULL, FALSE),
      \* a message of the bot itself: a user source without userId
      MessageEvent("m6", "text", Source("user", NULL, NULL, NULL), <<"t6">>, NULL, FALSE) }

\* A handler that reads the room id only
RoomOf(source) == source.roomId

\* source.groupId || source.roomId
GroupOf(source) ==
    IF source.groupId # NULL THEN source.groupId ELSE source.roomId

----------------------------------------------------------------------------
(* Errors.  A message (and a stack) is the set of the probe substrings it    *)
(* contains: String.includes(s) is membership.  Text closes a set under the  *)
(* substrings that a probe string itself contains.                           *)

Implied(s) ==
    CASE s = "Invalid reply token" -> {"token"}
      [] s = "Invalid access token" -> {"token"}
      [] s = "Entity not found" -> {"not found"}
      [] s = "Access token is required" -> {"token"}
      [] s = "Unauthorized: User ID mismatch" -> {"Unauthorized"}
      [] s = "Event not found or unauthorized" -> {"not found", "unauthorized"}
      [] OTHER -> {}

Text(S) == S \cup UNION { Implied(s) : s \in S }

includes(text, s) == s \in text

NoResponse == [present |-> FALSE, status |-> 0, hasMessage |-> FALSE, message |-> {}]

Response(status, message) ==
    [present |-> TRUE, status |-> status, hasMessage |-> TRUE, message |-> Text(message)]

NoZod == [present |-> FALSE, issues |-> <<>>]

\* A thrown value.  cls: "AppError", "ZodError", "Error" or "NonError".
Thrown(cls, name, message) ==
    [cls |-> cls, name |-> name, message |-> Text(message), stack |-> {},
     statusCode |-> 0, code |-> NULL, type |-> NULL, severity |-> NULL,
     userMessage |-> NULL, response |-> NoResponse, zodError |-> NoZod,
     issues |-> <<>>]

NoError == Thrown("none", NULL, {})

\* Errors the collaborators of the webhook path raise
AxiosError(status, message) ==
    [Thrown("Error", "AxiosError", {"Request failed"}) EXCEPT
        !.response = Response(status, message)]

D1Failure == Thrown("Error", "Error", {"D1_ERROR"})

D1UniqueViolation(column) ==
    Thrown("Error", "Error", {"D1_ERROR", "UNIQUE constraint failed", column})

\* class AppError and ErrorFactory
AppError(type, code, message, userMessage, statusCode, severity) ==
    [Thrown("AppError", "AppError", message) EXCEPT
        !.type = type, !.code = code, !.userMessage = userMessage,
        !.statusCode = statusCode, !.severity = severity]

validation(code, message, userMessage) ==
    AppError("validation", code, message, userMessage, 400, "low")

authentication(code, message, userMessage) ==
    AppError("authentication", code, message, userMessage, 401, "medium")

authorization(code, message, userMessage) ==
    AppError("authorization", code, message, userMessage, 403, "medium")

notFound(code, message, userMessage) ==
    AppError("not_found", code, message, userMessage, 404, "low")

conflict(code, message, userMessage) ==
    AppError("conflict", code, message, userMessage, 409, "medium")

externalApi(code, message, userMessage) ==
    AppError("external_api", code, message, userMessage, 502, "high")

database(code, message, userMessage) ==
    AppError("database", code, message, userMessage, 500, "high")

internal(code, message, userMessage) ==
    AppError("internal", code, message, userMessage, 500, "critical")

isAxiosError(error) == error.response.present

handleAxiosError(error) ==
    LET errorMessage == IF error.response.hasMessage THEN error.response.message
                        ELSE error.message
        statusCode == error.response.status
    IN  IF includes(errorMessage, "Invalid reply token")
          THEN externalApi("INVALID_REPLY_TOKEN", {"Reply token expired"},
                           "message expired, cannot reply")
        ELSE IF includes(errorMessage, "Too Many Requests")
          THEN externalApi("RATE_LIMIT", {"API rate too high"},
                           "too many requests, try again later")
        ELSE IF includes(errorMessage, "Invalid access token")
          THEN authentication("INVALID_ACCESS_TOKEN", {"Access token invalid"},
                              "authentication failed")
        ELSE IF statusCode >= 400 /\ statusCode < 500
          THEN externalApi("HTTP_" \o ToString(statusCode),
                           {"client error"} \cup errorMessage, "bad request format")
        ELSE IF statusCode >= 500
          THEN externalApi("HTTP_" \o ToString(statusCode), {"server error"},
                           "external service temporarily unavailable")
        ELSE externalApi("NETWORK_ERROR", {"network request failed"} \cup errorMessage,
                         "network connection failed")

D1Probes ==
    {"D1_ERROR", "DrizzleQueryError", "UNIQUE constraint failed",
     "FOREIGN KEY constraint failed", "NOT NULL constraint failed",
     "CHECK constraint failed"}

isD1DatabaseError(error) ==
    LET errorText == error.message \cup error.stack
    IN  \E p \in D1Probes : includes(errorText, p)

handleD1DatabaseError(error) ==
    LET errorText == error.message \cup error.stack
    IN  IF includes(errorText, "UNIQUE constraint failed")
          THEN conflict("UNIQUE_CONSTRAINT",
                        {"D1 unique constraint error:"} \cup error.message,
                        IF includes(errorText, "message_id")
                          THEN "this message was already processed, do not resubmit"
                        ELSE IF includes(errorText, "user_id")
                          THEN "duplicate user id"
                        ELSE "duplicate data")
        ELSE IF includes(errorText, "FOREIGN KEY constraint failed")
          THEN database("FOREIGN_KEY_CONSTRAINT",
                        {"D1 foreign key error:"} \cup error.message,
                        "data relation error")
        ELSE IF includes(errorText, "NOT NULL constraint failed")
          THEN database("NOT_NULL_CONSTRAINT",
                        {"D1 not null error:"} \cup error.message,
                        "required data missing")
        ELSE IF includes(errorText, "CHECK constraint failed")
          THEN database("CHECK_CONSTRAINT",
                        {"D1 check error:"} \cup error.message, "data format error")
        ELSE database("DATABASE_ERROR", {"D1 database error:"} \cup error.message,
                      "data operation failed")

\* A thrown TypeError.  An operator of this section that raises instead of
\* returning an AppError yields the raised value: its cls is "Error".
TypeError(message) == Thrown("Error", "TypeError", message)

\* No issue: error.issues[0] of an empty issue list
NoIssue ==
    [code |-> NULL, expected |-> NULL, received |-> NULL, path |-> <<>>, message |-> {}]

\* firstIssue?.message && firstIssue.message !== 'Invalid input'
HasOwnMessage(issue) == issue.message # {} /\ issue.message # {"Invalid input"}

\* getZodErrorUserMessage raises on issue.code of undefined, and in its
\* default branch on issue.message.toLowerCase() of an issue without message
getZodErrorUserMessageRaises(issue) ==
    LET ZodCodes ==
            {"invalid_type", "invalid_string", "too_small", "too_big", "invalid_enum_value",
             "invalid_date", "custom"}
    IN
    \/ issue = NoIssue
    \/ issue.code \notin ZodCodes /\ issue.message = {}

\* ErrorHandler.getZodErrorUserMessage
getZodErrorUserMessage(issue, fieldName) ==
    CASE issue.code = "invalid_type" -> {"wrong data type", fieldName, issue.expected}
      [] issue.code = "invalid_string" -> {"wrong format", fieldName}
      [] issue.code = "too_small" -> {"value too small", fieldName}
      [] issue.code = "too_big" -> {"value too big", fieldName}
      [] issue.code = "invalid_enum_value" -> {"invalid value", fieldName}
      [] issue.code = "invalid_date" -> {"must be a valid date", fieldName}
      [] issue.code = "custom" -> {fieldName} \cup issue.message
      [] OTHER -> IF \E m \in issue.message : m \in {"Required", "required"}
                    THEN {"required field must not be empty", fieldName}
                  ELSE {"validation failed", fieldName}

\* ErrorHandler.handleZodError
handleZodError(issues) ==
    LET \* issue.path.join('.') || unknown field
        FieldPath(issue) == IF Len(issue.path) > 0 THEN issue.path[1] ELSE "unknown field"
        firstIssue == IF Len(issues) > 0 THEN issues[1] ELSE NoIssue
        fieldName == FieldPath(firstIssue)
        raises == \/ ~HasOwnMessage(firstIssue) /\ getZodErrorUserMessageRaises(firstIssue)
                  \/ \E k \in 1..Len(issues) :
                        ~HasOwnMessage(issues[k]) /\ getZodErrorUserMessageRaises(issues[k])
    IN  IF raises THEN TypeError({"Cannot read properties of undefined"})
        ELSE validation("VALIDATION_ERROR", {"Zod validation failed:"},
                        IF HasOwnMessage(firstIssue) THEN firstIssue.message
                        ELSE getZodErrorUserMessage(firstIssue, fieldName))

\* A handleStandardError that looks at what the error carries only after the
\* response object and the datastore probes
handleStandardErrorCarriedLater(error) ==
    IF isAxiosError(error) THEN handleAxiosError(error)
    ELSE IF isD1DatabaseError(error) THEN handleD1DatabaseError(error)
    ELSE IF error.statusCode # 0 /\ error.code # NULL
      THEN IF error.zodError.present THEN handleZodError(error.zodError.issues)
           ELSE IF error.statusCode = 400
             THEN validation(error.code, error.message, error.message)
           ELSE IF error.statusCode = 401
             THEN authentication(error.code, error.message, error.message)
           ELSE IF error.statusCode = 403
             THEN authorization(error.code, error.message, error.message)
           ELSE IF error.statusCode = 404
             THEN notFound(error.code, error.message, error.message)
           ELSE IF error.statusCode = 409
             THEN conflict(error.code, error.message, error.message)
           ELSE internal(error.code, error.message, error.message)
    ELSE IF error.name = "ValidationError"
      THEN validation("VALIDATION_ERROR", error.message, "invalid input data")
    ELSE IF includes(error.message, "token")
      THEN authentication("AUTH_TOKEN_ERROR", error.message, "authentication failed")
    ELSE IF includes(error.message, "permission") \/ includes(error.message, "unauthorized")
      THEN authorization("PERMISSION_ERROR", error.message,
                         "no permission for this operation")
    ELSE IF includes(error.message, "not found")
      THEN notFound("RESOURCE_NOT_FOUND", error.message,
                    "requested resource does not exist")
    ELSE internal("INTERNAL_ERROR", error.message, "internal server error")

handleStandardError(error) ==
    IF error.statusCode # 0 /\ error.code # NULL
      THEN IF error.zodError.present THEN handleZodError(error.zodError.issues)
           ELSE IF error.statusCode = 400
             THEN validation(error.code, error.message, error.message)
           ELSE IF error.statusCode = 401
             THEN authentication(error.code, error.message, error.message)
           ELSE IF error.statusCode = 403
             THEN authorization(error.code, error.message, error.message)
           ELSE IF error.statusCode = 404
             THEN notFound(error.code, error.message, error.message)
           ELSE IF error.statusCode = 409
             THEN conflict(error.code, error.message, error.message)
           ELSE internal(error.code, error.message, error.message)
    ELSE IF isAxiosError(error) THEN handleAxiosError(error)
    ELSE IF isD1DatabaseError(error) THEN handleD1DatabaseError(error)
    ELSE IF error.name = "ValidationError"
      THEN validation("VALIDATION_ERROR", error.message, "invalid input data")
    ELSE IF includes(error.message, "token")
      THEN authentication("AUTH_TOKEN_ERROR", error.message, "authentication failed")
    ELSE IF includes(error.message, "permission") \/ includes(error.message, "unauthorized")
      THEN authorization("PERMISSION_ERROR", error.message,
                         "no permission for this operation")
    ELSE IF includes(error.message, "not found")
      THEN notFound("RESOURCE_NOT_FOUND", error.message,
                    "requested resource does not exist")
    ELSE internal("INTERNAL_ERROR", error.message, "internal server error")

\* JSON.stringify raises a TypeError on a BigInt and on a circular structure.
\* The name of a value that is not an Error is what kind of value it is.
JSONstringifyRaises(value) == value.name \in {"bigint", "circular"}

\* A handle that classifies an AppError again like any other Error
handleReclassifying(error) ==
    IF error.cls = "ZodError" THEN handleZodError(error.issues)
    ELSE IF error.cls \in {"Error", "AppError"} THEN handleStandardError(error)
    ELSE IF JSONstringifyRaises(error)
      THEN TypeError({"Converting circular structure to JSON"})
    ELSE internal("UNKNOWN_ERROR", {"Unknown error:"}, "an unknown error occurred")

\* ErrorHandler.handle
handle(error) ==
    IF error.cls = "AppError" THEN error
    ELSE IF error.cls = "ZodError" THEN handleZodError(error.issues)
    ELSE IF error.cls = "Error" THEN handleStandardError(error)
    ELSE IF JSONstringifyRaises(error)
      THEN TypeError({"Converting circular structure to JSON"})
    ELSE internal("UNKNOWN_ERROR", {"Unknown error:"}, "an unknown error occurred")

parseError(error) ==
    LET appError == handle(error)
    IN  [type |-> appError.type, code |-> appError.code, message |-> appError.message,
         userMessage |-> appError.userMessage, shouldReply |-> TRUE]

----------------------------------------------------------------------------
(* Datastore: db/schema.ts and the controllers *)

\* MessageController.getMessageByMessageId / getQuotedMessage: result[0] || null
RowsByMessageId(rows, messageId) ==
    { k \in 1..Len(rows) : rows[k].messageId = messageId }

\* A lookup that compares the wrong column and so never finds the row
getMessageNeverFound(rows, messageId) == 0

getMessageByMessageId(rows, messageId) ==
    LET ks == RowsByMessageId(rows, messageId)
    IN  IF ks = {} THEN 0 ELSE CHOOSE k \in ks : \A j \in ks : k <= j

getQuotedMessage(rows, quotedMessageId) ==
    getMessageByMessageId(rows, quotedMessageId)

\* A table created without its UNIQUE constraint
UniqueNotEnforced(rows, messageId) == FALSE

\* message_id ... .unique() of tables messages and calendar_events
UniqueViolated(rows, messageId) ==
    messageId # NULL /\ RowsByMessageId(rows, messageId) # {}

\* content: message.text || message.fileName || `file message: ${message.type}`
ContentOf(ev) ==
    IF ev.text # <<>> THEN ev.text ELSE <<"file message:", ev.mtype>>

\* MessageController.createMessage with the row processMessage builds
createMessage(rows, ev) ==
    Append(rows,
           [id |-> Len(rows) + 1, messageId |-> ev.id, userId |-> ev.source.userId,
            content |-> ContentOf(ev), messageType |-> ev.mtype,
            quotedMessageId |-> ev.quotedMessageId, groupId |-> GroupOf(ev.source),
            eventId |-> 0])

\* MessageController.updateMessageEventId
updateMessageEventId(rows, id, eventId) ==
    [k \in 1..Len(rows) |->
        IF rows[k].id = id THEN [rows[k] EXCEPT !.eventId = eventId] ELSE rows[k]]

\* integer(..., { mode: 'timestamp' }): a Date is stored in whole seconds
StoredTimestamp(ms) == ms \div 1000

\* CalendarEventController.createEvent
createEvent(rows, eventData) ==
    Append(rows,
           [id |-> Len(rows) + 1, title |-> eventData.title,
            start |-> StoredTimestamp(eventData.start),
            end |-> StoredTimestamp(eventData.end),
            allDay |-> eventData.allDay, completed |-> eventData.completed,
            userId |-> eventData.userId, messageId |-> eventData.messageId,
            groupId |-> eventData.groupId])

----------------------------------------------------------------------------
(* lib/ai.ts *)

NoCandidate == [title |-> <<>>, start |-> 0, end |-> 0, allDay |-> FALSE]

\* eventData of createDirectEvent
DirectEventData(userMessage, userId, messageId, now, groupId) ==
    LET HourMs == 60 * 60 * 1000
    IN
    [title |-> userMessage, start |-> now,
     end |-> now + DEFAULT_EVENT_DURATION_HOURS * HourMs, allDay |-> FALSE,
     userId |-> userId, completed |-> FALSE, messageId |-> messageId,
     groupId |-> groupId]

\* formatSuccessMessage
formatSuccessMessage(eventData) ==
    [kind |-> "event_created", title |-> eventData.title,
     start |-> eventData.start, end |-> eventData.end]

----------------------------------------------------------------------------
(* webhook/message-handlers.ts *)

\* processText: the AI input text
QuotedFraming(content, text) ==
    <<"reply to message:">> \o content \o <<"current message:">> \o text

UnresolvedFraming(text) == <<"reply to an earlier message:">> \o text

generateManageUrl(source, type) ==
    IF GroupOf(source) # NULL THEN <<"group", GroupOf(source), type>>
    ELSE <<"user", source.userId, type>>

NoText == [kind |-> "none"]

\* aiResult.error || 'processing failed', and errorInfo.userMessage
ErrorText(userMessage) == [kind |-> "error", userMessage |-> userMessage]

\* isMentioned: message.mention?.mentionees?.some(m => m.isSelf)
isMentioned(ev) == ev.isSelf

----------------------------------------------------------------------------
(* One handleEvent promise.  pc is the await the handler is suspended at;    *)
(* trace lists the writes and outbound calls it has issued, failed the steps *)
(* that threw, replied the texts handed to replyMessage, existed whether the  *)
(* table held a row of the message id when the existence check ran.          *)

NewHandler(r, ev, pc) ==
    [req |-> r, ev |-> ev, pc |-> pc, savedMessageId |-> 0, aiInputText |-> <<>>,
     candidate |-> NoCandidate, now |-> 0, createdEvent |-> 0,
     responseText |-> NoText, thrown |-> NoError, trace |-> <<>>, failed |-> {},
     replied |-> <<>>, existed |-> FALSE]

\* handleEvent, handleJoinEvent, handleMessageEvent and processMessage up to
\* their first await
StartHandler(r, ev) ==
    IF ev.type = "join"
      THEN NewHandler(r, ev, IF GroupOf(ev.source) # NULL THEN "push" ELSE "fulfilled")
    ELSE IF ev.type = "message"
      THEN IF ev.source.type = "user" /\ ev.source.userId = NULL
             THEN NewHandler(r, ev, "fulfilled")
           ELSE NewHandler(r, ev, "lookup")
    ELSE NewHandler(r, ev, "fulfilled")

Did(h, op) == [h EXCEPT !.trace = Append(@, op)]

\* An exception that no try block of processMessage encloses
Rejected(h, step, error) ==
    [h EXCEPT !.pc = "rejected", !.thrown = error, !.failed = @ \cup {step}]

\* "Send reply if needed": if (responseText) await replyMessage(...)
SendReplyIfNeeded(h) ==
    IF h.responseText # NoText THEN [h EXCEPT !.pc = "reply"]
    ELSE [h EXCEPT !.pc = "fulfilled"]

\* catch (error) of processMessage: responseText = errorInfo.userMessage
CatchInProcessMessage(h, step, error) ==
    SendReplyIfNeeded(
        [h EXCEPT !.failed = @ \cup {step},
                  !.responseText =
                      IF parseError(error).shouldReply
                        THEN ErrorText(parseError(error).userMessage)
                      ELSE NoText])

\* processText: return aiResult.error || 'processing failed'
ReturnAiError(h, step, userMessage) ==
    SendReplyIfNeeded(
        [h EXCEPT !.failed = @ \cup {step}, !.responseText = ErrorText(userMessage)])

\* processMessage from "Process message based on type" to its next await
Dispatch(h) ==
    LET FILE_MESSAGE_TYPES == {"image", "video", "audio", "file"}
        \* handleMessageEvent: context.fileController is set for FILE_MESSAGE_TYPES only
        HasFileController(ev) == ev.mtype \in FILE_MESSAGE_TYPES
    IN
    IF h.ev.mtype = TEXT_MESSAGE_TYPE
      THEN IF GroupOf(h.ev.source) # NULL /\ ~isMentioned(h.ev)
             THEN [h EXCEPT !.pc = "fulfilled"]
           ELSE IF h.ev.quotedMessageId # NULL
             THEN [h EXCEPT !.pc = "quoted", !.aiInputText = h.ev.text]
           ELSE [h EXCEPT !.pc = "ai", !.aiInputText = h.ev.text]
    ELSE IF HasFileController(h.ev) THEN [h EXCEPT !.pc = "download"]
    ELSE SendReplyIfNeeded(h)

\* A processMessage that starts the downstream work without saving the message
AfterLookupUnsaved(h, existing) ==
    IF existing # 0 THEN [h EXCEPT !.pc = "fulfilled"] ELSE Dispatch(h)

\* processMessage after the existence check
AfterLookup(h, existing) ==
    IF existing # 0 THEN [h EXCEPT !.pc = "fulfilled"] ELSE [h EXCEPT !.pc = "insert"]

\* A processText that frames every quoting message as unresolved
AfterQuotedUnresolved(h, rows, k) ==
    [h EXCEPT !.pc = "ai", !.aiInputText = UnresolvedFraming(h.ev.text)]

\* processText after getQuotedMessage
AfterQuoted(h, rows, k) ==
    [h EXCEPT !.pc = "ai",
              !.aiInputText = IF k # 0 THEN QuotedFraming(rows[k].content, h.ev.text)
                              ELSE UnresolvedFraming(h.ev.text)]

\* createEventWithAI after executeCreateEvent of the tool result failed:
\* success stays false, so createDirectEvent runs
AfterToolPersistFailed(h, now) ==
    [h EXCEPT !.pc = "persistDirect", !.now = now, !.failed = @ \cup {"persistTool"}]

\* processText after a created event: the message row is linked next
AfterPersist(h, eventId, eventData) ==
    LET \* aiResult.text + generateManageUrl(source, frontendUrl, 'todo')
        EventText(message, source) ==
            [kind |-> "event", message |-> message, url |-> generateManageUrl(source, "todo")]
    IN
    [h EXCEPT !.pc = "attach", !.createdEvent = eventId,
              !.responseText = EventText(formatSuccessMessage(eventData), h.ev.source)]

\* fileName: message.fileName || `${message.id}.${ext}`
FileNameOf(ev) == <<ev.id, "ext">>

\* A reply block that tries again after a failed reply
AfterReplyRetried(h, ok) ==
    IF ok THEN [h EXCEPT !.pc = "fulfilled"]
    ELSE [h EXCEPT !.pc = "reply", !.failed = @ \cup {"reply"}]

\* catch of the reply block: the failure is logged, nothing else happens
AfterReply(h, ok) ==
    [h EXCEPT !.pc = "fulfilled",
              !.failed = IF ok THEN @ ELSE @ \cup {"reply"}]

----------------------------------------------------------------------------
(* webhook/index.ts: handleWebhook, and the route app.post('/webhook') *)

\* files/controller.ts: the bindings a request comes with.  A binding is
\* "set", the empty string, or absent (NULL).
requiredKeys ==
    {"LINE_ACCESS_TOKEN", "LINE_CHANNEL_SECRET", "GOOGLE_AI_API_KEY", "DB", "APP_STORAGE"}

CompleteEnv == [key \in requiredKeys \cup {"ENV"} |-> "set"]

\* validateEnvironment without the object-storage binding among its keys
validateEnvironmentWithoutStorage(env) ==
    \A key \in requiredKeys \ {"APP_STORAGE"} : env[key] \notin {NULL, ""}

\* validateEnvironment: no required key with !env[key]
validateEnvironment(env) ==
    \A key \in requiredKeys : env[key] \notin {NULL, ""}

NoAnswer == [status |-> 0, body |-> NULL, threw |-> FALSE]

HandlersOf(hs, r) == { k \in 1..Len(hs) : hs[k].req = r }

\* A catch block that has lost its special case
NeverInvalidReplyToken(error) == FALSE

\* error?.response?.data?.message?.includes('Invalid reply token')
IsInvalidReplyToken(error) ==
    /\ error.response.present
    /\ error.response.hasMessage
    /\ includes(error.response.message, "Invalid reply token")

\* Promise.all: rejected as soon as one promise is, fulfilled when all are
PromiseAll(hs, r) ==
    IF \E k \in HandlersOf(hs, r) : hs[k].pc = "rejected" THEN "rejected"
    ELSE IF \A k \in HandlersOf(hs, r) : hs[k].pc = "fulfilled" THEN "fulfilled"
    ELSE "pending"

\* The route's answer: c.text(response), or c.text(`Error: ${error}`, 500)
handleWebhook(req, hs, r) ==
    IF req.answer # NoAnswer \/ PromiseAll(hs, r) = "pending" THEN req
    ELSE IF PromiseAll(hs, r) = "fulfilled"
      THEN [req EXCEPT !.answer =
                [status |-> 200, body |-> WEBHOOK_RESPONSE.SUCCESS, threw |-> FALSE]]
    ELSE LET error == hs[CHOOSE k \in HandlersOf(hs, r) : hs[k].pc = "rejected"].thrown
         IN  IF IsInvalidReplyToken(error)
               THEN [req EXCEPT !.answer =
                        [status |-> 200, body |-> WEBHOOK_RESPONSE.INVALID_REPLY_TOKEN,
                         threw |-> FALSE]]
             ELSE [req EXCEPT !.answer =
                      [status |-> 500, body |-> "Error", threw |-> TRUE],
                               !.error = error]

\* A step of handler i: the continuation of handleWebhook runs as soon as
\* Promise.all settles, before any other callback
Advance(i, h2, fault) ==
    LET hs2 == [handlers EXCEPT ![i] = h2]
    IN  /\ handlers' = hs2
        /\ requests' = [requests EXCEPT ![h2.req] = handleWebhook(@, hs2, h2.req)]
        /\ faults' = faults + (IF fault THEN 1 ELSE 0)

MayFail == faults < MaxFaults

----------------------------------------------------------------------------
(* Failures of the collaborators *)

Tick == 700

----------------------------------------------------------------------------
(* Actions *)

Init ==
    /\ messages = <<>>
    /\ calendarEvents = <<>>
    /\ files = <<>>
    /\ storage = {}
    /\ pushes = <<>>
    /\ requests = <<>>
    /\ handlers = <<>>
    /\ faults = 0
    /\ clock = 1500
    /\ calls = <<>>

\* app.post('/webhook'): a batch arrives and handleWebhook maps handleEvent
\* over it
Receive ==
    /\ Len(requests) < MaxRequests
    /\ \E n \in 0..(MaxEvents - Len(handlers)) :
         \E batch \in [1..n -> EventMenu] :
            LET r == Len(requests) + 1
                hs2 == handlers \o [k \in 1..n |-> StartHandler(r, batch[k])]
            IN  /\ handlers' = hs2
                /\ requests' = Append(requests,
                                      handleWebhook([size |-> n, answer |-> NoAnswer,
                                                     error |-> NoError,
                                                     env |-> CompleteEnv], hs2, r))
    /\ UNCHANGED <<messages, calendarEvents, files, storage, pushes, faults, clock,
                   calls>>

Push ==
    LET \* The platform refusing a push or a reply
        PlatformErrors ==
            { AxiosError(400, {"Invalid reply token"}), AxiosError(500, {"Internal error"}) }
        \* handleJoinEvent: await pushMessage({ to: groupId, message: welcomeMessage })
        PushStep(i) ==
            /\ handlers[i].pc = "push"
            /\ \/ /\ pushes' = Append(pushes, [to |-> GroupOf(handlers[i].ev.source),
                                               message |-> welcomeMessage])
                  /\ Advance(i, [Did(handlers[i], "push") EXCEPT !.pc = "fulfilled"], FALSE)
               \/ /\ MayFail
                  /\ \E error \in PlatformErrors :
                        Advance(i, Rejected(Did(handlers[i], "push"), "push", error), TRUE)
                  /\ UNCHANGED pushes
            /\ UNCHANGED <<messages, calendarEvents, files, storage, clock>>
    IN  (\E i \in 1..Len(handlers) : PushStep(i)) /\ UNCHANGED calls

Lookup ==
    LET \* processMessage: await messageController.getMessageByMessageId(message.id)
        LookupStep(i) ==
            /\ handlers[i].pc = "lookup"
            /\ \/ Advance(i, AfterLookup([handlers[i] EXCEPT !.existed =
                                              RowsByMessageId(messages, handlers[i].ev.id) # {}],
                                         getMessageByMessageId(messages, handlers[i].ev.id)), FALSE)
               \/ /\ MayFail
                  /\ Advance(i, Rejected(handlers[i], "lookup", D1Failure), TRUE)
            /\ UNCHANGED <<messages, calendarEvents, files, storage, pushes, clock>>
    IN  (\E i \in 1..Len(handlers) : LookupStep(i)) /\ UNCHANGED calls

Insert ==
    LET \* processMessage: await messageController.createMessage({...}), then the
        \* dispatch on the message type up to the next await
        InsertStep(i) ==
            /\ handlers[i].pc = "insert"
            /\ \/ /\ UniqueViolated(messages, handlers[i].ev.id)
                  /\ Advance(i, Rejected(handlers[i], "insert", D1UniqueViolation("message_id")),
                             FALSE)
                  /\ UNCHANGED messages
               \/ /\ ~UniqueViolated(messages, handlers[i].ev.id)
                  /\ messages' = createMessage(messages, handlers[i].ev)
                  /\ Advance(i, Dispatch([Did(handlers[i], "insert_message") EXCEPT
                                             !.savedMessageId = Len(messages')]), FALSE)
               \/ /\ MayFail
                  /\ Advance(i, Rejected(handlers[i], "insert", D1Failure), TRUE)
                  /\ UNCHANGED messages
            /\ UNCHANGED <<calendarEvents, files, storage, pushes, clock>>
    IN  (\E i \in 1..Len(handlers) : InsertStep(i)) /\ UNCHANGED calls

Quoted ==
    LET \* processText: await messageController.getQuotedMessage(message.quotedMessageId)
        QuotedStep(i) ==
            /\ handlers[i].pc = "quoted"
            /\ \/ Advance(i, AfterQuoted(handlers[i], messages,
                                         getQuotedMessage(messages, handlers[i].ev.quotedMessageId)),
                          FALSE)
               \/ /\ MayFail
                  /\ Advance(i, CatchInProcessMessage(handlers[i], "quoted", D1Failure), TRUE)
            /\ UNCHANGED <<messages, calendarEvents, files, storage, pushes, clock>>
    IN  (\E i \in 1..Len(handlers) : QuotedStep(i)) /\ UNCHANGED calls

Ai ==
    LET \* The extraction service: a failed request, or an answer with success = false
        AiErrors ==
            { AxiosError(503, {"unavailable"}), Thrown("Error", "Error", {"AI API returned error"}) }
        \* createEventWithAI: the answer carries a usable createEvent tool result, or
        \* createDirectEvent reads the time and builds the fallback event
        AfterAi(h, candidate, now) ==
            IF candidate # NoCandidate THEN [h EXCEPT !.pc = "persistTool", !.candidate = candidate]
            ELSE [h EXCEPT !.pc = "persistDirect", !.now = now]
        \* What the extraction service may answer with a tool call: the candidate event
        Candidates ==
            { [title |-> <<"dentist">>, start |-> 7200500, end |-> 10800500, allDay |-> TRUE] }
        \* createEventWithAI: await axios.post(`${aiBaseUrl}/api/calendar-ai`, ...)
        AiStep(i) ==
            /\ handlers[i].pc = "ai"
            /\ \/ /\ \E candidate \in Candidates \cup {NoCandidate} :
                        Advance(i, AfterAi(Did(handlers[i], "ai_call"), candidate, clock), FALSE)
                  /\ clock' = clock + Tick
               \/ /\ MayFail
                  /\ \E error \in AiErrors :
                        Advance(i, ReturnAiError(Did(handlers[i], "ai_call"), "ai",
                                                 parseError(error).userMessage), TRUE)
                  /\ UNCHANGED clock
            /\ UNCHANGED <<messages, calendarEvents, files, storage, pushes>>
    IN  (\E i \in 1..Len(handlers) : AiStep(i)) /\ UNCHANGED calls

PersistTool ==
    LET \* eventData of createEventWithAI for a tool result
        ToolEventData(c, userId, messageId, groupId) ==
            [title |-> c.title, start |-> c.start, end |-> c.end, allDay |-> c.allDay,
             userId |-> userId, completed |-> FALSE, messageId |-> messageId,
             groupId |-> groupId]
        \* executeCreateEvent for the tool result: await controller.createEvent(eventData)
        PersistToolStep(i) ==
            LET h == handlers[i]
                eventData == ToolEventData(h.candidate, h.ev.source.userId, h.ev.id,
                                           GroupOf(h.ev.source))
            IN  /\ h.pc = "persistTool"
                /\ \/ /\ ~UniqueViolated(calendarEvents, h.ev.id)
                      /\ calendarEvents' = createEvent(calendarEvents, eventData)
                      /\ Advance(i, AfterPersist(Did(h, "insert_event"), Len(calendarEvents'),
                                                 eventData), FALSE)
                      /\ UNCHANGED clock
                   \/ /\ UniqueViolated(calendarEvents, h.ev.id)
                      /\ Advance(i, AfterToolPersistFailed(h, clock), FALSE)
                      /\ clock' = clock + Tick
                      /\ UNCHANGED calendarEvents
                   \/ /\ MayFail
                      /\ Advance(i, AfterToolPersistFailed(h, clock), TRUE)
                      /\ clock' = clock + Tick
                      /\ UNCHANGED calendarEvents
                /\ UNCHANGED <<messages, files, storage, pushes>>
    IN  (\E i \in 1..Len(handlers) : PersistToolStep(i)) /\ UNCHANGED calls

PersistDirect ==
    LET \* createDirectEvent: executeCreateEvent for the fallback event
        PersistDirectStep(i) ==
            LET h == handlers[i]
                eventData == DirectEventData(h.aiInputText, h.ev.source.userId, h.ev.id, h.now,
                                             GroupOf(h.ev.source))
            IN  /\ h.pc = "persistDirect"
                /\ \/ /\ ~UniqueViolated(calendarEvents, h.ev.id)
                      /\ calendarEvents' = createEvent(calendarEvents, eventData)
                      /\ Advance(i, AfterPersist(Did(h, "insert_event"), Len(calendarEvents'),
                                                 eventData), FALSE)
                   \/ /\ UniqueViolated(calendarEvents, h.ev.id)
                      /\ Advance(i, ReturnAiError(h, "persistDirect",
                                        parseError(D1UniqueViolation("message_id")).userMessage),
                                 FALSE)
                      /\ UNCHANGED calendarEvents
                   \/ /\ MayFail
                      /\ Advance(i, ReturnAiError(h, "persistDirect",
                                                  parseError(D1Failure).userMessage), TRUE)
                      /\ UNCHANGED calendarEvents
                /\ UNCHANGED <<messages, files, storage, pushes, clock>>
    IN  (\E i \in 1..Len(handlers) : PersistDirectStep(i)) /\ UNCHANGED calls

Attach ==
    LET \* processText: await messageController.updateMessageEventId(savedMessageId, id)
        AttachStep(i) ==
            LET h == handlers[i]
            IN  /\ h.pc = "attach"
                /\ \/ /\ messages' = updateMessageEventId(messages, h.savedMessageId,
                                                          h.createdEvent)
                      /\ Advance(i, SendReplyIfNeeded(Did(h, "update_message")), FALSE)
                   \/ /\ MayFail
                      /\ Advance(i, CatchInProcessMessage(h, "attach", D1Failure), TRUE)
                      /\ UNCHANGED messages
                /\ UNCHANGED <<calendarEvents, files, storage, pushes, clock>>
    IN  (\E i \in 1..Len(handlers) : AttachStep(i)) /\ UNCHANGED calls

Download ==
    LET \* The content endpoint answers a failed download without a JSON message
        DownloadError ==
            [Thrown("Error", "AxiosError", {"Request failed"}) EXCEPT
                !.response = [present |-> TRUE, status |-> 404, hasMessage |-> FALSE,
                              message |-> {}]]
        \* processFile: await downloadFile({ messageId, accessToken })
        DownloadStep(i) ==
            LET h == handlers[i]
            IN  /\ h.pc = "download"
                /\ \/ Advance(i, [Did(h, "download") EXCEPT !.pc = "insertFile"], FALSE)
                   \/ /\ MayFail
                      /\ Advance(i, CatchInProcessMessage(Did(h, "download"), "download",
                                                          DownloadError), TRUE)
                /\ UNCHANGED <<messages, calendarEvents, files, storage, pushes, clock>>
    IN  (\E i \in 1..Len(handlers) : DownloadStep(i)) /\ UNCHANGED calls

InsertFile ==
    LET \* FileController.createFile: await db.insert(files).values(fileData)
        InsertFileStep(i) ==
            LET h == handlers[i]
            IN  /\ h.pc = "insertFile"
                /\ \/ /\ \A k \in 1..Len(files) : files[k].fileId # h.ev.id
                      /\ files' = Append(files, [fileId |-> h.ev.id, userId |-> h.ev.source.userId,
                                                 fileName |-> FileNameOf(h.ev),
                                                 groupId |-> GroupOf(h.ev.source)])
                      /\ Advance(i, [Did(h, "insert_file") EXCEPT !.pc = "storagePut"], FALSE)
                   \/ /\ \E k \in 1..Len(files) : files[k].fileId = h.ev.id
                      /\ Advance(i, CatchInProcessMessage(h, "insertFile",
                                                          D1UniqueViolation("file_id")), FALSE)
                      /\ UNCHANGED files
                   \/ /\ MayFail
                      /\ Advance(i, CatchInProcessMessage(h, "insertFile", D1Failure), TRUE)
                      /\ UNCHANGED files
                /\ UNCHANGED <<messages, calendarEvents, storage, pushes, clock>>
    IN  (\E i \in 1..Len(handlers) : InsertFileStep(i)) /\ UNCHANGED calls

StoragePut ==
    LET StorageFailure == Thrown("Error", "Error", {"R2 put failed"})
        FileText(fileName, source) ==
            [kind |-> "file", fileName |-> fileName, url |-> generateManageUrl(source, "files")]
        \* FileController.createFile: await this.storage.put(storagePath, fileBuffer)
        StoragePutStep(i) ==
            LET h == handlers[i]
                storagePath == IF GroupOf(h.ev.source) # NULL
                                 THEN <<"groups", GroupOf(h.ev.source), h.ev.id>>
                               ELSE <<"users", h.ev.source.userId, h.ev.id>>
            IN  /\ h.pc = "storagePut"
                /\ \/ /\ storage' = storage \cup {storagePath}
                      /\ Advance(i, SendReplyIfNeeded(
                                        [Did(h, "storage_put") EXCEPT
                                            !.responseText = FileText(FileNameOf(h.ev), h.ev.source)]),
                                 FALSE)
                   \/ /\ MayFail
                      /\ Advance(i, CatchInProcessMessage(h, "storagePut", StorageFailure), TRUE)
                      /\ UNCHANGED storage
                /\ UNCHANGED <<messages, calendarEvents, files, pushes, clock>>
    IN  (\E i \in 1..Len(handlers) : StoragePutStep(i)) /\ UNCHANGED calls

Reply ==
    LET \* processMessage: try { await replyMessage({...}) } catch { console.error }
        ReplyStep(i) ==
            LET h == [Did(handlers[i], "reply") EXCEPT !.replied = Append(@, handlers[i].responseText)]
            IN  /\ handlers[i].pc = "reply"
                /\ \/ Advance(i, AfterReply(h, TRUE), FALSE)
                   \/ /\ MayFail
                      /\ Advance(i, AfterReply(h, FALSE), TRUE)
                /\ UNCHANGED <<messages, calendarEvents, files, storage, pushes, clock>>
    IN  (\E i \in 1..Len(handlers) : ReplyStep(i)) /\ UNCHANGED calls

Next ==
    \/ Receive
    \/ Push
    \/ Lookup
    \/ Insert
    \/ Quoted
    \/ Ai
    \/ PersistTool
    \/ PersistDirect
    \/ Attach
    \/ Download
    \/ InsertFile
    \/ StoragePut
    \/ Reply

Spec == Init /\ [][Next]_vars

----------------------------------------------------------------------------
(* The RPC surface: app.use('/rpc/*') of index.ts, middlewares/verify.ts,   *)
(* lib/orpc.ts, lib/auth-helpers.ts, routers/index.ts and the controllers.  *)
(* One request is one action.  A field a request omits is NULL, or <<>> for *)
(* a text.  Update requests carry start and end.                            *)

AUTH_STRATEGY == [NONE |-> "none", OPTIONAL |-> "optional", REQUIRED |-> "required"]

\* API_AUTH_MAP[method]; NULL (undefined) for a name that is not listed
API_AUTH_MAP(method) ==
    CASE method \in {"getGroupEvents", "getGroupFiles", "updateGroupFileName",
                     "deleteGroupFile", "getGroupIncompleteExpiredEvents"}
           -> AUTH_STRATEGY.NONE
      [] method \in {"createEvent", "updateEvent", "deleteEvent"}
           -> AUTH_STRATEGY.OPTIONAL
      [] method \in {"uploadFile", "uploadGroupFile"} -> AUTH_STRATEGY.REQUIRED
      [] OTHER -> NULL

\* The strategy applied to a request: verifyOrpcAuth when the path has no
\* last segment, else API_AUTH_MAP[method] || AUTH_STRATEGY.REQUIRED
authStrategy(method) ==
    IF method = "" THEN AUTH_STRATEGY.REQUIRED
    ELSE IF API_AUTH_MAP(method) # NULL THEN API_AUTH_MAP(method)
    ELSE AUTH_STRATEGY.REQUIRED

\* The Authorization header: absent, of another scheme, or 'Bearer ' + token
AuthHeader(present, bearer, token) ==
    [present |-> present, bearer |-> bearer, token |-> token]

\* The platform's identity endpoint: the user id ("sub") a token stands for
SubOf(token) ==
    CASE token = "tokU1" -> "U1"
      [] token = "tokU2" -> "U2"
      [] OTHER -> NULL

\* extractAccessToken
extractAccessToken(authHeader) ==
    IF ~authHeader.present \/ ~authHeader.bearer
      THEN [ok |-> FALSE, token |-> NULL,
            error |-> Thrown("Error", "Error", {"Access token is required"})]
    ELSE [ok |-> TRUE, token |-> authHeader.token, error |-> NoError]

\* verifyLiffToken: axios.get(userinfo) rejects for every non-2xx answer
verifyLiffToken(accessToken, idp) ==
    IF idp = "unreachable"
      THEN [ok |-> FALSE, userId |-> NULL,
            error |-> Thrown("Error", "AxiosError", {"Network Error"})]
    ELSE IF idp = "down"
      THEN [ok |-> FALSE, userId |-> NULL, error |-> AxiosError(503, {"unavailable"})]
    ELSE IF SubOf(accessToken) = NULL
      THEN [ok |-> FALSE, userId |-> NULL, error |-> AxiosError(401, {"invalid_token"})]
    ELSE [ok |-> TRUE, userId |-> SubOf(accessToken), error |-> NoError]

\* What a verifier leaves behind: whether it called next(), the liffUser it
\* set, whether it asked the identity endpoint, and the status of the
\* Response it returned (0: none)
Verdict(next, liffUser, asked, returned) ==
    [next |-> next, liffUser |-> liffUser, asked |-> asked, returned |-> returned]

\* verifyOrpcAuth
verifyOrpcAuth(authHeader, idp) ==
    LET t == extractAccessToken(authHeader)
        v == verifyLiffToken(t.token, idp)
    IN  IF ~t.ok THEN Verdict(FALSE, NULL, FALSE, 401)
        ELSE IF v.ok THEN Verdict(TRUE, v.userId, TRUE, 0)
        ELSE IF v.error.name = "AxiosError" /\ v.error.response.present
                /\ v.error.response.status = 401
          THEN Verdict(FALSE, NULL, TRUE, 401)
        ELSE IF v.error.name = "AxiosError" /\ v.error.response.present
                /\ v.error.response.status >= 500
          THEN Verdict(FALSE, NULL, TRUE, 503)
        ELSE Verdict(FALSE, NULL, TRUE, 401)

\* An optional verifier that turns away a token it could not verify
verifyOrpcAuthOptionalStrict(authHeader, idp) ==
    LET t == extractAccessToken(authHeader)
        v == verifyLiffToken(t.token, idp)
    IN  IF ~authHeader.present \/ ~authHeader.bearer THEN Verdict(TRUE, NULL, FALSE, 0)
        ELSE IF v.ok THEN Verdict(TRUE, v.userId, TRUE, 0)
        ELSE Verdict(FALSE, NULL, TRUE, 401)

\* verifyOrpcAuthOptional
verifyOrpcAuthOptional(authHeader, idp) ==
    LET t == extractAccessToken(authHeader)
        v == verifyLiffToken(t.token, idp)
    IN  IF ~authHeader.present \/ ~authHeader.bearer THEN Verdict(TRUE, NULL, FALSE, 0)
        ELSE IF v.ok THEN Verdict(TRUE, v.userId, TRUE, 0)
        ELSE Verdict(TRUE, NULL, TRUE, 0)

\* app.use('/rpc/*', ...): the authentication middleware
rpcAuthMiddleware(method, authHeader, idp) ==
    IF authStrategy(method) = AUTH_STRATEGY.NONE THEN Verdict(TRUE, NULL, FALSE, 0)
    ELSE IF authStrategy(method) = AUTH_STRATEGY.OPTIONAL
      THEN verifyOrpcAuthOptional(authHeader, idp)
    ELSE verifyOrpcAuth(authHeader, idp)

----------------------------------------------------------------------------
(* calendar-events/controller.ts.  The primary key is AUTOINCREMENT: an id   *)
(* is never given twice, so a deleted row leaves its place to Deleted(id).   *)

NoRow ==
    [id |-> 0, title |-> <<>>, start |-> 0, end |-> 0, allDay |-> FALSE,
     completed |-> FALSE, userId |-> NULL, messageId |-> NULL, groupId |-> NULL]

Deleted(id) == [NoRow EXCEPT !.id = id]

\* CalendarEventController.getEvent: findFirst(eq(events.id, eventId))
getEvent(rows, eventId) ==
    IF eventId \in 1..Len(rows) /\ rows[eventId] # Deleted(eventId) THEN rows[eventId]
    ELSE NoRow

\* new Date(eventData.start || '') of an update that omits start: an Invalid
\* Date, which the timestamp column maps to NaN
InvalidDate == -1

\* db.update(calendarEvents).set({...eventData, start, end}): a key that is
\* undefined is left out of the statement
SetEvent(row, eventData) ==
    [row EXCEPT !.title = IF eventData.title # <<>> THEN eventData.title ELSE @,
                !.start = IF eventData.start = 0 THEN InvalidDate
                          ELSE StoredTimestamp(eventData.start),
                !.end = IF eventData.end = 0 THEN InvalidDate
                        ELSE StoredTimestamp(eventData.end),
                !.userId = eventData.userId,
                !.groupId = IF eventData.groupId # NULL THEN eventData.groupId ELSE @]

ControllerResult(rows, result) == [rows |-> rows, result |-> result]

\* A controller that updates a personal event for whoever asks
updateEventOfAnyUser(rows, eventId, userId, eventData) ==
    LET event == getEvent(rows, eventId)
    IN  IF event = NoRow \/ event.groupId # NULL THEN ControllerResult(rows, NoRow)
        ELSE ControllerResult([rows EXCEPT ![eventId] = SetEvent(event, eventData)],
                              SetEvent(event, eventData))

\* CalendarEventController.updateEvent
updateEvent(rows, eventId, userId, eventData) ==
    LET event == getEvent(rows, eventId)
    IN  IF event = NoRow \/ event.userId # userId \/ event.groupId # NULL
          THEN ControllerResult(rows, NoRow)
        ELSE ControllerResult([rows EXCEPT ![eventId] = SetEvent(event, eventData)],
                              SetEvent(event, eventData))

\* CalendarEventController.deleteEvent
deleteEvent(rows, eventId, userId) ==
    LET event == getEvent(rows, eventId)
    IN  IF event = NoRow \/ event.userId # userId \/ event.groupId # NULL
          THEN ControllerResult(rows, NoRow)
        ELSE ControllerResult([rows EXCEPT ![eventId] = Deleted(eventId)], event)

\* A controller that lets only the creator update a group event
updateGroupEventOfCreator(rows, eventId, groupId, eventData) ==
    LET event == getEvent(rows, eventId)
    IN  IF event = NoRow \/ event.groupId # groupId \/ event.groupId = NULL
           \/ event.userId # eventData.userId
          THEN ControllerResult(rows, NoRow)
        ELSE ControllerResult([rows EXCEPT ![eventId] = SetEvent(event, eventData)],
                              SetEvent(event, eventData))

\* CalendarEventController.updateGroupEvent
updateGroupEvent(rows, eventId, groupId, eventData) ==
    LET event == getEvent(rows, eventId)
    IN  IF event = NoRow \/ event.groupId # groupId \/ event.groupId = NULL
          THEN ControllerResult(rows, NoRow)
        ELSE ControllerResult([rows EXCEPT ![eventId] = SetEvent(event, eventData)],
                              SetEvent(event, eventData))

\* CalendarEventController.deleteGroupEvent
deleteGroupEvent(rows, eventId, groupId) ==
    LET event == getEvent(rows, eventId)
    IN  IF event = NoRow \/ event.groupId # groupId \/ event.groupId = NULL
          THEN ControllerResult(rows, NoRow)
        ELSE ControllerResult([rows EXCEPT ![eventId] = Deleted(eventId)], event)

----------------------------------------------------------------------------
(* lib/orpc.ts and lib/orpc-utils.ts: the error boundary of every procedure *)

\* A schema issue of Zod for a required field that is absent
MissingField(field) ==
    [code |-> "invalid_type", expected |-> "string", received |-> "undefined",
     path |-> <<field>>, message |-> {"Required"}]

\* One issue of a ZodError
Issue(code, path, message) ==
    [code |-> code, expected |-> IF code = "invalid_type" THEN "string" ELSE NULL,
     received |-> IF code = "invalid_type" THEN "undefined" ELSE NULL,
     path |-> path, message |-> message]

\* new z.ZodError(issues)
ZodError(issues) == [Thrown("ZodError", "ZodError", {"validation"}) EXCEPT !.issues = issues]

\* A property of an error that may hold a ZodError: undefined (or an object
\* with nothing to find), a ZodError, or a plain object with an issues array
Nothing == [zod |-> FALSE, hasIssues |-> FALSE, issues |-> <<>>]

ZodValue(issues) == [zod |-> TRUE, hasIssues |-> TRUE, issues |-> issues]

IssuesHolder(issues) == [zod |-> FALSE, hasIssues |-> TRUE, issues |-> issues]

\* error.data: absent, or an object.  zod: data is itself a ZodError;
\* hasIssues/issues: data.issues is an array; nested: the values data[key]
\* that the loop over Object.keys(data) visits, in its order
NoData == [present |-> FALSE, type |-> NULL, code |-> NULL, message |-> {},
           userMessage |-> {}, zod |-> FALSE, hasIssues |-> FALSE, issues |-> <<>>,
           cause |-> Nothing, nested |-> <<>>]

\* error.details: absent, or an array with its first element
NoDetails == [present |-> FALSE, length |-> 0, first |-> Nothing]

\* The HTTP status of an ORPCError code
ORPCStatus(code) ==
    CASE code = "BAD_REQUEST" -> 400
      [] code = "UNAUTHORIZED" -> 401
      [] code = "FORBIDDEN" -> 403
      [] code = "NOT_FOUND" -> 404
      [] code = "CONFLICT" -> 409
      [] OTHER -> 500

\* new ORPCError(code, { message, data }).  mentions: the known field names
\* that occur in JSON.stringify(error); circular: the error refers to itself,
\* so that JSON.stringify(error) throws
ORPCError(code, message, data) ==
    [cls |-> "ORPCError", name |-> "ORPCError", code |-> code,
     status |-> ORPCStatus(code), message |-> message, data |-> data,
     cause |-> Nothing, original |-> Nothing, details |-> NoDetails,
     hasIssues |-> FALSE, issues |-> <<>>, mentions |-> {}, circular |-> FALSE]

\* isORPCValidationError
isORPCValidationError(error) ==
    \/ error.message = {"Input validation failed"}
    \/ error.name = "ValidationError"
    \/ error.cls = "ValidationError"
    \/ error.cls = "ORPCError"

\* (error as any)[key], undefined when the error has no such property
Property(error, key, undefined) ==
    IF key \in DOMAIN error THEN error[key] ELSE undefined

commonRequiredFields ==
    <<"userId", "groupId", "fileName", "fileType", "fileSize", "fileData">>

\* analyzeORPCErrorForField: the first known field name found in the
\* serialized error, else a generic field
analyzeORPCErrorForField(error) ==
    LET errorString == Property(error, "mentions", {})
        found == { i \in 1..Len(commonRequiredFields) :
                     commonRequiredFields[i] \in errorString }
    IN  IF found # {}
          THEN LET field == commonRequiredFields[CHOOSE i \in found :
                                                    \A j \in found : i <= j]
               IN  [fieldName |-> field, message |-> {field, "is a required field"}]
        ELSE [fieldName |-> "input parameters",
              message |-> {"required field missing or malformed data"}]

\* An extractZodErrorFromORPC that looks at the error's own issues list
\* before it looks into error.data
extractZodErrorOwnIssuesFirst(error) ==
    LET cause == Property(error, "cause", Nothing)
        original == Property(error, "original", Nothing)
        data == Property(error, "data", NoData)
        details == Property(error, "details", NoDetails)
        values == data.nested
        hits == { k \in 1..Len(values) : values[k].zod \/ values[k].hasIssues }
        errorDetails == analyzeORPCErrorForField(error)
    IN  IF error.cls = "ZodError" THEN ZodError(error.issues)
        ELSE IF cause.zod THEN ZodError(cause.issues)
        ELSE IF original.zod THEN ZodError(original.issues)
        ELSE IF Property(error, "hasIssues", FALSE) THEN ZodError(error.issues)
        ELSE IF data.present /\ data.zod THEN ZodError(data.issues)
        ELSE IF data.present /\ data.cause.zod THEN ZodError(data.cause.issues)
        ELSE IF data.present /\ data.hasIssues THEN ZodError(data.issues)
        ELSE IF data.present /\ hits # {}
          THEN ZodError(values[CHOOSE k \in hits : \A j \in hits : k <= j].issues)
        ELSE IF details.present /\ details.length > 0 /\ details.first.hasIssues
          THEN ZodError(details.first.issues)
        ELSE IF Property(error, "circular", FALSE)
          THEN TypeError({"Converting circular structure to JSON"})
        ELSE ZodError(<< [code |-> "invalid_type", expected |-> "string",
                          received |-> "undefined",
                          path |-> <<errorDetails.fieldName>>,
                          message |-> errorDetails.message] >>)

\* extractZodErrorFromORPC: the ZodError it returns, or the TypeError that
\* JSON.stringify raises in analyzeORPCErrorForField
extractZodErrorFromORPC(error) ==
    LET cause == Property(error, "cause", Nothing)
        original == Property(error, "original", Nothing)
        data == Property(error, "data", NoData)
        details == Property(error, "details", NoDetails)
        values == data.nested
        hits == { k \in 1..Len(values) : values[k].zod \/ values[k].hasIssues }
        errorDetails == analyzeORPCErrorForField(error)
    IN  IF error.cls = "ZodError" THEN ZodError(error.issues)
        ELSE IF cause.zod THEN ZodError(cause.issues)
        ELSE IF original.zod THEN ZodError(original.issues)
        ELSE IF data.present /\ data.zod THEN ZodError(data.issues)
        ELSE IF data.present /\ data.cause.zod THEN ZodError(data.cause.issues)
        ELSE IF data.present /\ data.hasIssues THEN ZodError(data.issues)
        ELSE IF data.present /\ hits # {}
          THEN ZodError(values[CHOOSE k \in hits : \A j \in hits : k <= j].issues)
        ELSE IF details.present /\ details.length > 0 /\ details.first.hasIssues
          THEN ZodError(details.first.issues)
        ELSE IF Property(error, "hasIssues", FALSE) THEN ZodError(error.issues)
        ELSE IF Property(error, "circular", FALSE)
          THEN TypeError({"Converting circular structure to JSON"})
        ELSE ZodError(<< [code |-> "invalid_type", expected |-> "string",
                          received |-> "undefined",
                          path |-> <<errorDetails.fieldName>>,
                          message |-> errorDetails.message] >>)

\* createORPCErrorResponse
createORPCErrorResponse(issues, userMessage) ==
    ORPCError("BAD_REQUEST", userMessage,
              [NoData EXCEPT !.present = TRUE, !.type = "validation",
                             !.code = "VALIDATION_ERROR", !.message = userMessage,
                             !.userMessage = userMessage, !.hasIssues = TRUE,
                             !.issues = issues])

\* The conversion both branches of the catch block make; a failure of the
\* extraction leaves the catch block instead
Converted(zodError) ==
    LET \* zodError.issues[0]?.message || the general validation message
        FirstIssueMessage(issues) ==
            IF Len(issues) > 0 /\ issues[1].message # {} THEN issues[1].message
            ELSE {"input data validation error"}
    IN
    IF zodError.cls = "ZodError"
      THEN createORPCErrorResponse(zodError.issues, FirstIssueMessage(zodError.issues))
    ELSE zodError

\* The catch block of publicProcedure
publicProcedure(error) ==
    IF error.cls \notin {"none", "NonError"} /\ isORPCValidationError(error)
      THEN Converted(extractZodErrorFromORPC(error))
    ELSE IF error.cls = "ZodError" THEN Converted(ZodError(error.issues))
    ELSE error

----------------------------------------------------------------------------
(* routers/index.ts and lib/auth-helpers.ts *)

\* What a procedure leaves behind
Outcome(rows, fs, st, executed, error) ==
    [rows |-> rows, files |-> fs, storage |-> st, executed |-> executed,
     error |-> error]

Unauthorized == Thrown("Error", "Error", {"Unauthorized: User ID mismatch"})

\* checkUserAuth
checkUserAuth(liffUser, userId) == liffUser # NULL /\ liffUser = userId

\* checkGroupEventAuth: an input that names a group is not checked
checkGroupEventAuth(liffUser, input) ==
    input.groupId # NULL \/ checkUserAuth(liffUser, input.userId)

\* CreateEventSchema, as far as the requests of the model go
CreateEventSchema(input) ==
    IF input.title = <<>> THEN <<MissingField("title")>> ELSE <<>>

\* appRouter.createEvent
createEventProcedure(rows, liffUser, input) ==
    LET \* The error the framework raises when the input does not satisfy the schema
        InputValidationFailed(issues) ==
            ORPCError("BAD_REQUEST", {"Input validation failed"},
                      [NoData EXCEPT !.present = TRUE, !.hasIssues = TRUE, !.issues = issues])
    IN
    IF CreateEventSchema(input) # <<>>
      THEN [rows |-> rows, executed |-> FALSE,
            error |-> InputValidationFailed(CreateEventSchema(input))]
    ELSE IF ~checkGroupEventAuth(liffUser, input)
      THEN [rows |-> rows, executed |-> TRUE, error |-> Unauthorized]
    ELSE [rows |-> createEvent(rows,
                       [title |-> input.title, start |-> input.start, end |-> input.end,
                        allDay |-> FALSE, completed |-> FALSE, userId |-> input.userId,
                        messageId |-> NULL, groupId |-> input.groupId]),
          executed |-> TRUE, error |-> NoError]

\* An ownership check that believes the groupId of the request
OwnershipCheckOfInput(existingEvent, liffUser, input) ==
    IF input.groupId # NULL THEN "skipped"
    ELSE IF liffUser = NULL \/ liffUser # input.userId THEN "denied"
    ELSE "passed"

\* updateEvent and deleteEvent: isGroupEvent = existingEvent?.groupId || false,
\* and the check of the caller when it is not a group event
OwnershipCheck(existingEvent, liffUser, input) ==
    IF existingEvent # NoRow /\ existingEvent.groupId # NULL THEN "skipped"
    ELSE IF liffUser = NULL \/ liffUser # input.userId THEN "denied"
    ELSE "passed"

\* appRouter.updateEvent
updateEventProcedure(rows, liffUser, input) ==
    LET existingEvent == getEvent(rows, input.id)
        check == OwnershipCheck(existingEvent, liffUser, input)
        r == IF check = "skipped"
               THEN updateGroupEvent(rows, input.id, existingEvent.groupId, input)
             ELSE updateEvent(rows, input.id, input.userId, input)
    IN  IF check = "denied"
          THEN [rows |-> rows, executed |-> TRUE, error |-> Unauthorized]
        ELSE IF r.result = NoRow
          THEN [rows |-> rows, executed |-> TRUE,
                error |-> Thrown("Error", "Error", {"Failed to update event"})]
        ELSE [rows |-> r.rows, executed |-> TRUE, error |-> NoError]

\* appRouter.deleteEvent
deleteEventProcedure(rows, liffUser, input) ==
    LET existingEvent == getEvent(rows, input.id)
        check == OwnershipCheck(existingEvent, liffUser, input)
        r == IF check = "skipped"
               THEN deleteGroupEvent(rows, input.id, existingEvent.groupId)
             ELSE deleteEvent(rows, input.id, input.userId)
    IN  IF check = "denied"
          THEN [rows |-> rows, executed |-> TRUE, error |-> Unauthorized]
        ELSE IF r.result = NoRow
          THEN [rows |-> rows, executed |-> TRUE,
                error |-> Thrown("Error", "Error", {"Failed to delete event"})]
        ELSE [rows |-> r.rows, executed |-> TRUE, error |-> NoError]

\* appRouter.getEvents (withUserAuth) and appRouter.getGroupEvents: reads
getEventsProcedure(rows, liffUser, input) ==
    IF ~checkUserAuth(liffUser, input.userId)
      THEN [rows |-> rows, executed |-> TRUE, error |-> Unauthorized]
    ELSE [rows |-> rows, executed |-> TRUE, error |-> NoError]

getGroupEventsProcedure(rows, liffUser, input) ==
    [rows |-> rows, executed |-> TRUE, error |-> NoError]

\* appRouter.uploadFile with well-formed file data: FileController.createFile
uploadFileProcedure(fs, st, liffUser, input) ==
    LET fileId == "upload" \o ToString(Len(fs) + 1)
    IN  IF liffUser = NULL \/ liffUser # input.userId
          THEN [files |-> fs, storage |-> st, executed |-> TRUE, error |-> Unauthorized]
        ELSE [files |-> Append(fs, [fileId |-> fileId, userId |-> input.userId,
                                    fileName |-> <<"upload">>, groupId |-> NULL]),
              storage |-> st \cup {<<"users", input.userId, fileId>>},
              executed |-> TRUE, error |-> NoError]

ProcedureNames ==
    {"createEvent", "updateEvent", "deleteEvent", "getEvents", "getGroupEvents",
     "uploadFile"}

\* RPCHandler.handle: the procedure the path names; a path that names none
\* runs nothing
RPCHandler(method, liffUser, input, rows, fs, st) ==
    CASE method = "createEvent" ->
           LET p == createEventProcedure(rows, liffUser, input)
           IN  Outcome(p.rows, fs, st, p.executed, p.error)
      [] method = "updateEvent" ->
           LET p == updateEventProcedure(rows, liffUser, input)
           IN  Outcome(p.rows, fs, st, p.executed, p.error)
      [] method = "deleteEvent" ->
           LET p == deleteEventProcedure(rows, liffUser, input)
           IN  Outcome(p.rows, fs, st, p.executed, p.error)
      [] method = "getEvents" ->
           LET p == getEventsProcedure(rows, liffUser, input)
           IN  Outcome(p.rows, fs, st, p.executed, p.error)
      [] method = "getGroupEvents" ->
           LET p == getGroupEventsProcedure(rows, liffUser, input)
           IN  Outcome(p.rows, fs, st, p.executed, p.error)
      [] method = "uploadFile" ->
           LET p == uploadFileProcedure(fs, st, liffUser, input)
           IN  Outcome(rows, p.files, p.storage, p.executed, p.error)
      [] OTHER -> Outcome(rows, fs, st, FALSE, NoError)

\* The answer to a request that reached the RPC handler: the result, the
\* ORPCError as thrown, any other error as INTERNAL_SERVER_ERROR, and 404
\* for a path that names no procedure
RpcResponse(method, error) ==
    IF method \notin ProcedureNames
      THEN [status |-> 404, code |-> "NOT_FOUND", type |-> NULL, userMessage |-> {}]
    ELSE IF error.cls = "none"
      THEN [status |-> 200, code |-> NULL, type |-> NULL, userMessage |-> {}]
    ELSE IF error.cls = "ORPCError"
      THEN [status |-> error.status, code |-> error.code, type |-> error.data.type,
            userMessage |-> error.data.userMessage]
    ELSE [status |-> 500, code |-> "INTERNAL_SERVER_ERROR", type |-> NULL,
          userMessage |-> {}]

\* The requests of the model
Input(id, userId, groupId, title) ==
    [id |-> id, userId |-> userId, groupId |-> groupId, title |-> title,
     start |-> 9000500, end |-> 12600500]

\* The requests a caller may send: an update or a delete names the id of a
\* row of the table
Inputs(method, rows) ==
    LET ids == { k \in 0..Len(rows) :
                   IF method \in {"updateEvent", "deleteEvent"} THEN k > 0 ELSE k = 0 }
    IN  CASE method = "updateEvent" ->
               { Input(id, u, g, t) : id \in ids, u \in {"U1", "U2"}, g \in {NULL, "G1"},
                                      t \in {<<>>, <<"moved">>} }
               \cup { [Input(id, u, g, t) EXCEPT !.start = 0, !.end = 0] :
                         id \in ids, u \in {"U1", "U2"}, g \in {NULL, "G1"},
                         t \in {<<"moved">>} }
          [] method = "deleteEvent" ->
               { Input(id, u, g, <<>>) : id \in ids, u \in {"U1", "U2"},
                                         g \in {NULL, "G1"} }
          [] method = "createEvent" ->
               { Input(id, u, g, t) : id \in ids, u \in {"U1", "U2"}, g \in {NULL, "G1"},
                                      t \in {<<>>, <<"lunch">>} }
          [] method = "getGroupEvents" -> { Input(id, NULL, "G1", <<>>) : id \in ids }
          [] OTHER -> { Input(id, u, NULL, <<>>) : id \in ids, u \in {"U1", "U2"} }

\* The verified identity of a request, whatever the middleware does with it
VerifiedIdentity(authHeader, idp) ==
    IF authHeader.present /\ authHeader.bearer /\ idp = "up" THEN SubOf(authHeader.token)
    ELSE NULL

\* One request to /rpc/<method>, from the middleware to the answer.  auth is
\* what the authentication middleware leaves behind, out what the procedure
\* does, error what leaves the catch block of publicProcedure.
\* The UPDATE that binds the NaN of an Invalid Date to a NOT NULL column:
\* the datastore stores what it makes of the value, or rejects the statement,
\* and the procedure's catch turns the rejection into 'Failed to update event'
Statement(ran, rows, fs, st) ==
    IF \E k \in 1..Len(rows) :
          ran.rows[k] # rows[k] /\ InvalidDate \in {ran.rows[k].start, ran.rows[k].end}
      THEN {ran, Outcome(rows, fs, st, TRUE,
                         Thrown("Error", "Error", {"Failed to update event"}))}
    ELSE {ran}

RpcRequest(method, authHeader, idp, input) ==
    LET \* The answer to a request whose verifier did not call next(): the Response
        \* the verifier returned is dropped by "await verifyOrpcAuth(c, next)", the
        \* context is never finalized and the framework answers 500
        UnfinalizedResponse ==
            [status |-> 500, code |-> "INTERNAL_SERVER_ERROR", type |-> NULL, userMessage |-> {}]
    IN
    \E auth \in {rpcAuthMiddleware(method, authHeader, idp)} :
    \E ran \in {IF auth.next
                  THEN RPCHandler(method, auth.liffUser, input, calendarEvents, files,
                                  storage)
                ELSE Outcome(calendarEvents, files, storage, FALSE, NoError)} :
    \E out \in Statement(ran, calendarEvents, files, storage) :
    \E error \in {publicProcedure(out.error)} :
    \E response \in {IF auth.next THEN RpcResponse(method, error)
                     ELSE UnfinalizedResponse} :
        /\ calendarEvents' = out.rows
        /\ files' = out.files
        /\ storage' = out.storage
        /\ calls' = Append(calls,
               [method |-> method, input |-> input, env |-> CompleteEnv,
                identity |-> VerifiedIdentity(authHeader, idp),
                asked |-> auth.asked, liffUser |-> auth.liffUser,
                returned |-> auth.returned, passed |-> auth.next,
                executed |-> out.executed, status |-> response.status,
                type |-> response.type, userMessage |-> response.userMessage,
                classified |-> IF error.cls = "Error" THEN handle(error).type
                               ELSE NULL,
                before |-> getEvent(calendarEvents, input.id),
                after |-> getEvent(out.rows, input.id),
                mutated |-> out.rows # calendarEvents])
        /\ UNCHANGED <<messages, pushes, requests, handlers, faults, clock>>

\* What a caller presents and how the identity endpoint fares meanwhile; the
\* endpoint is consulted only for a Bearer header
Credentials ==
    LET AuthHeaders ==
            { AuthHeader(FALSE, FALSE, NULL), AuthHeader(TRUE, FALSE, "tokU1"),
              AuthHeader(TRUE, TRUE, "tokU1"), AuthHeader(TRUE, TRUE, "tokU2"),
              AuthHeader(TRUE, TRUE, "expired") }
        \* The identity endpoint answers, answers 5xx, or cannot be reached
        IdentityEndpoint == {"up", "down", "unreachable"}
    IN
    { <<h, "up">> : h \in AuthHeaders }
    \cup { <<AuthHeader(TRUE, TRUE, "tokU1"), idp>> : idp \in IdentityEndpoint }

RpcCreateEvent ==
    /\ Len(calls) < MaxCalls
    /\ \E input \in Inputs("createEvent", calendarEvents), c \in Credentials :
          RpcRequest("createEvent", c[1], c[2], input)

RpcUpdateEvent ==
    /\ Len(calls) < MaxCalls
    /\ \E input \in Inputs("updateEvent", calendarEvents), c \in Credentials :
          RpcRequest("updateEvent", c[1], c[2], input)

RpcDeleteEvent ==
    /\ Len(calls) < MaxCalls
    /\ \E input \in Inputs("deleteEvent", calendarEvents), c \in Credentials :
          RpcRequest("deleteEvent", c[1], c[2], input)

RpcGetEvents ==
    /\ Len(calls) < MaxCalls
    /\ \E input \in Inputs("getEvents", calendarEvents), c \in Credentials :
          RpcRequest("getEvents", c[1], c[2], input)

RpcGetGroupEvents ==
    /\ Len(calls) < MaxCalls
    /\ \E input \in Inputs("getGroupEvents", calendarEvents), c \in Credentials :
          RpcRequest("getGroupEvents", c[1], c[2], input)

RpcUploadFile ==
    /\ Len(calls) < MaxCalls
    /\ \E input \in Inputs("uploadFile", calendarEvents), c \in Credentials :
          RpcRequest("uploadFile", c[1], c[2], input)

\* A request to /rpc/ : the path has no last segment
RpcNoMethod ==
    /\ Len(calls) < MaxCalls
    /\ \E input \in Inputs("", calendarEvents), c \in Credentials :
          RpcRequest("", c[1], c[2], input)

\* The tables after the webhook has processed the personal message m1 of U1
\* and the group message m2 of U2, each answered without a candidate
RpcInit ==
    LET e1 == CHOOSE e \in EventMenu : e.id = "m1"
        e2 == CHOOSE e \in EventMenu : e.id = "m2"
    IN  /\ messages = updateMessageEventId(
                          updateMessageEventId(
                              createMessage(createMessage(<<>>, e1), e2), 1, 1), 2, 2)
        /\ calendarEvents =
               createEvent(
                   createEvent(<<>>, DirectEventData(e1.text, "U1", "m1", 1500, NULL)),
                   DirectEventData(UnresolvedFraming(e2.text), "U2", "m2", 2200, "G1"))
        /\ files = <<>>
        /\ storage = {}
        /\ pushes = <<>>
        /\ requests = <<>>
        /\ handlers = <<>>
        /\ faults = 0
        /\ clock = 2900
        /\ calls = <<>>

RpcNext ==
    \/ RpcCreateEvent
    \/ RpcUpdateEvent
    \/ RpcDeleteEvent
    \/ RpcGetEvents
    \/ RpcGetGroupEvents
    \/ RpcUploadFile
    \/ RpcNoMethod

RpcSpec == RpcInit /\ [][RpcNext]_vars

----------------------------------------------------------------------------
(* The error normalizer on its own: a boundary catches a value and hands it  *)
(* to ErrorHandler.handle; an outer boundary catches what the inner one      *)
(* re-throws and hands it to ErrorHandler.handle again.  calls is the log    *)
(* of these calls.                                                           *)

MaxHandled == 2

ZodErrors ==
    LET \* Schema-validation errors: z.ZodError with its issue list
        IssueLists ==
            { <<>>,
              <<MissingField("title")>>,
              <<Issue("invalid_type", <<"start">>, {"Invalid input"})>>,
              <<Issue("too_small", <<"title">>, {})>>,
              <<Issue("custom", <<>>, {"end before start"})>>,
              <<Issue("unrecognized_keys", <<>>, {"Invalid input"})>>,
              <<Issue("unrecognized_keys", <<"userId">>, {})>>,
              <<MissingField("userId"), Issue("invalid_date", <<"end">>, {"Invalid input"})>> }
    IN  { ZodError(issues) : issues \in IssueLists }

\* Values that are no Error: throw "boom", throw undefined, throw {..},
\* throw 1n, throw an object that refers to itself
NonErrors ==
    { Thrown("NonError", kind, {}) :
        kind \in {"string", "undefined", "object", "bigint", "circular"} }

\* Errors of every shape handleStandardError looks at
StandardErrors ==
    LET PreservedZod == { NoZod, [present |-> TRUE, issues |-> <<MissingField("title")>>] }
        Stacks == { {}, {"NOT NULL constraint failed"} }
        Responses ==
            { NoResponse, Response(400, {"Invalid reply token"}), Response(404, {"Not found"}),
              Response(500, {}) }
        Messages ==
            { {"boom"}, {"Invalid access token"}, {"permission"},
              {"Unauthorized: User ID mismatch"}, {"Entity not found"},
              {"D1_ERROR", "UNIQUE constraint failed", "message_id"} }
        \* statusCode and code an error may carry
        Carried ==
            { <<0, NULL>>, <<404, NULL>>, <<400, "BAD_REQUEST">>, <<404, "NOT_FOUND">>,
              <<409, "CONFLICT">>, <<503, "UNAVAILABLE">> }
    IN
    { [Thrown("Error", name, message) EXCEPT
          !.statusCode = carried[1], !.code = carried[2], !.response = response,
          !.stack = stack, !.zodError = zodError] :
        name \in {"Error", "ValidationError"}, message \in Messages,
        carried \in Carried, response \in Responses, stack \in Stacks,
        zodError \in PreservedZod }

\* A boundary catches a schema-validation error
CatchZodError ==
    /\ calls = <<>>
    /\ \E error \in ZodErrors :
          calls' = Append(calls, [error |-> error, normalized |-> handle(error)])
    /\ UNCHANGED <<messages, calendarEvents, files, storage, pushes, requests,
                   handlers, faults, clock>>

\* A boundary catches an Error
CatchError ==
    /\ calls = <<>>
    /\ \E error \in StandardErrors :
          calls' = Append(calls, [error |-> error, normalized |-> handle(error)])
    /\ UNCHANGED <<messages, calendarEvents, files, storage, pushes, requests,
                   handlers, faults, clock>>

\* A boundary catches a value that is no Error
CatchNonError ==
    /\ calls = <<>>
    /\ \E error \in NonErrors :
          calls' = Append(calls, [error |-> error, normalized |-> handle(error)])
    /\ UNCHANGED <<messages, calendarEvents, files, storage, pushes, requests,
                   handlers, faults, clock>>

\* The next boundary catches the AppError an inner boundary has returned
\* and re-thrown
CatchAppError ==
    /\ calls # <<>>
    /\ Len(calls) < MaxHandled
    /\ \E k \in 1..Len(calls) :
          /\ calls[k].normalized.cls = "AppError"
          /\ calls' = Append(calls, [error |-> calls[k].normalized,
                                     normalized |-> handle(calls[k].normalized)])
    /\ UNCHANGED <<messages, calendarEvents, files, storage, pushes, requests,
                   handlers, faults, clock>>

ErrNext ==
    \/ CatchZodError
    \/ CatchError
    \/ CatchNonError
    \/ CatchAppError

ErrSpec == Init /\ [][ErrNext]_vars

----------------------------------------------------------------------------
(* index.ts: the entry of every request.  The first middleware on '*'       *)
(* validates the bindings the request comes with; only then the route runs. *)

MaxEntered == 1

\* The bindings of a request: complete, one required binding absent, or the
\* channel secret an empty string
Envs ==
    {CompleteEnv}
    \cup { [CompleteEnv EXCEPT ![key] = NULL] : key \in requiredKeys }
    \cup { [CompleteEnv EXCEPT !["LINE_CHANNEL_SECRET"] = ""] }

Entered == Len(requests) + Len(calls)

\* c.json({error: 'Server configuration error', ...}, 500)
ConfigurationError == [status |-> 500, body |-> "Server configuration error", threw |-> FALSE]

\* POST /webhook
EnterWebhook ==
    /\ Entered < MaxEntered
    /\ \E env \in Envs, n \in 0..(MaxEvents - Len(handlers)) :
         \E batch \in [1..n -> EventMenu] :
            LET r == Len(requests) + 1
                hs2 == handlers \o [k \in 1..n |-> StartHandler(r, batch[k])]
            IN  IF validateEnvironment(env)
                  THEN /\ handlers' = hs2
                       /\ requests' = Append(requests,
                                             handleWebhook([size |-> n, answer |-> NoAnswer,
                                                            error |-> NoError,
                                                            env |-> env], hs2, r))
                ELSE /\ requests' = Append(requests,
                                           [size |-> n, answer |-> ConfigurationError,
                                            error |-> NoError, env |-> env])
                     /\ UNCHANGED handlers
    /\ UNCHANGED <<messages, calendarEvents, files, storage, pushes, faults, clock,
                   calls>>

\* What the log keeps of a request that no procedure has seen
Entry(method, env, status) ==
    [method |-> method, env |-> env, status |-> status, asked |-> FALSE,
     passed |-> FALSE, executed |-> FALSE]

\* POST /rpc/<method>
EnterRpc ==
    /\ Entered < MaxEntered
    /\ \E env \in Envs, method \in ProcedureNames \cup {""} :
       \E input \in Inputs(method, calendarEvents), c \in Credentials :
          IF validateEnvironment(env) THEN RpcRequest(method, c[1], c[2], input)
          ELSE /\ calls' = Append(calls, Entry(method, env, ConfigurationError.status))
               /\ UNCHANGED <<messages, calendarEvents, files, storage, pushes,
                              requests, handlers, faults, clock>>

\* GET /echo
EnterEcho ==
    /\ Entered < MaxEntered
    /\ \E env \in Envs :
          calls' = Append(calls,
                          IF validateEnvironment(env)
                            THEN [Entry("echo", env, 200) EXCEPT !.passed = TRUE,
                                                                 !.executed = TRUE]
                          ELSE Entry("echo", env, ConfigurationError.status))
    /\ UNCHANGED <<messages, calendarEvents, files, storage, pushes, requests,
                   handlers, faults, clock>>

EntryNext ==
    \/ EnterWebhook
    \/ EnterRpc
    \/ EnterEcho
    \/ Push
    \/ Lookup
    \/ Insert
    \/ Quoted
    \/ Ai
    \/ PersistTool
    \/ PersistDirect
    \/ Attach
    \/ Download
    \/ InsertFile
    \/ StoragePut
    \/ Reply

EntrySpec == Init /\ [][EntryNext]_vars

----------------------------------------------------------------------------
(* lib/orpc-utils.ts and the error boundary of publicProcedure: the errors
   a procedure can throw, one thrown per behaviour *)

\* The issue found at one place of an error, named after the place
Found(place) == Issue("invalid_type", <<place>>, {place})

ProcedureErrors ==
    LET \* What a procedure throws: the framework's validation error, another error
        \* of the framework's class, an error named ValidationError, and plain errors
        Classes ==
            { ORPCError("BAD_REQUEST", {"Input validation failed"}, NoData),
              ORPCError("NOT_FOUND", {"Event not found"}, NoData),
              [ORPCError("INTERNAL_SERVER_ERROR", {"invalid"}, NoData)
                  EXCEPT !.cls = "ValidationError", !.name = "ValidationError"],
              [ORPCError("INTERNAL_SERVER_ERROR", {"Input validation failed"}, NoData)
                  EXCEPT !.cls = "Error", !.name = "Error"],
              [ORPCError("INTERNAL_SERVER_ERROR", {"Failed to upload file"}, NoData)
                  EXCEPT !.cls = "Error", !.name = "Error"] }
        Mentions == {{}, {"groupId"}, {"fileName", "userId"}, {"fileData", "fileType"}}
        OwnIssues == {<<>>, <<Found("issues")>>}
        Details ==
            { NoDetails,
              [present |-> TRUE, length |-> 0, first |-> Nothing],
              [present |-> TRUE, length |-> 1, first |-> Nothing],
              [present |-> TRUE, length |-> 1, first |-> IssuesHolder(<<Found("details")>>)] }
        Datas ==
            LET NestedLists ==
                    { <<>>,
                      <<Nothing, IssuesHolder(<<Found("data.key")>>)>>,
                      <<ZodValue(<<Found("data.key")>>), IssuesHolder(<<Found("data.other")>>)>> }
            IN
            {NoData} \cup
            { [NoData EXCEPT !.present = TRUE, !.zod = kind = "zod",
                             !.hasIssues = kind \in {"zod", "issues"},
                             !.issues = IF kind = "zod" THEN <<Found("data")>>
                                        ELSE IF kind = "issues" THEN <<Found("data.issues")>>
                                        ELSE <<>>,
                             !.cause = cause, !.nested = nested] :
                kind \in {"object", "zod", "issues"},
                cause \in {Nothing, ZodValue(<<Found("data.cause")>>)},
                nested \in NestedLists }
        Originals == {Nothing, ZodValue(<<Found("original")>>)}
        Causes == {Nothing, ZodValue(<<Found("cause")>>), IssuesHolder(<<Found("cause")>>)}
    IN
    { [class EXCEPT !.cause = cause, !.original = original, !.data = data,
                    !.details = details, !.hasIssues = issues # <<>>,
                    !.issues = issues, !.mentions = mentions,
                    !.circular = circular] :
        class \in Classes, cause \in Causes, original \in Originals, data \in Datas,
        details \in Details, issues \in OwnIssues, mentions \in Mentions,
        circular \in BOOLEAN }

\* extractZodErrorFromORPC applied to an error
ExtractZodError ==
    /\ calls = <<>>
    /\ \E error \in ProcedureErrors \cup ZodErrors :
           calls' = <<[op |-> "extractZodErrorFromORPC", error |-> error,
                       result |-> extractZodErrorFromORPC(error)]>>
    /\ UNCHANGED <<messages, calendarEvents, files, storage, pushes, requests,
                   handlers, faults, clock>>

\* A procedure throws an Error and the boundary catches it
CatchInProcedure ==
    /\ calls = <<>>
    /\ \E error \in ProcedureErrors \cup ZodErrors :
           calls' = <<[op |-> "publicProcedure", error |-> error,
                       result |-> publicProcedure(error)]>>
    /\ UNCHANGED <<messages, calendarEvents, files, storage, pushes, requests,
                   handlers, faults, clock>>

\* A procedure throws a value that is not an Error
CatchNonErrorInProcedure ==
    /\ calls = <<>>
    /\ \E error \in NonErrors :
           calls' = <<[op |-> "publicProcedure", error |-> error,
                       result |-> publicProcedure(error)]>>
    /\ UNCHANGED <<messages, calendarEvents, files, storage, pushes, requests,
                   handlers, faults, clock>>

OrpcNext ==
    \/ ExtractZodError
    \/ CatchInProcedure
    \/ CatchNonErrorInProcedure

OrpcSpec == Init /\ [][OrpcNext]_vars

----------------------------------------------------------------------------
(* Properties *)

MessageIds == { ev.id : ev \in { e \in EventMenu : e.type = "message" } }

Settled(h) == h.pc \in {"fulfilled", "rejected"}

AllSettled(r) == \A k \in HandlersOf(handlers, r) : Settled(handlers[k])

Occurrences(seq, x) == Cardinality({ k \in 1..Len(seq) : seq[k] = x })

\* The handler has been through createMessage: the insert succeeded, or the
\* datastore refused it for the UNIQUE constraint
PersistStepDone(h) ==
    \/ h.savedMessageId # 0
    \/ "insert" \in h.failed /\ includes(h.thrown.message, "UNIQUE constraint failed")

\* C1: whatever the interleaving of the deliveries of one external message id,
\* the datastore holds at most one StoredMessage and at most one CalendarEvent
\* of that id, and exactly one StoredMessage once a delivery is through its
\* persist step.
C1_Idempotency ==
    \A id \in MessageIds :
        /\ Cardinality(RowsByMessageId(messages, id)) <= 1
        /\ Cardinality(RowsByMessageId(calendarEvents, id)) <= 1
        /\ (\E i \in 1..Len(handlers) :
                handlers[i].ev.id = id /\ PersistStepDone(handlers[i]))
              => Cardinality(RowsByMessageId(messages, id)) = 1

\* Two deliveries of one id both passed the existence check; one was saved and
\* the other was refused
C1_Witness ==
    \E i, j \in 1..Len(handlers) :
        /\ i # j
        /\ handlers[i].ev.id = handlers[j].ev.id
        /\ handlers[i].savedMessageId # 0
        /\ "insert" \in handlers[j].failed
        /\ includes(handlers[j].thrown.message, "UNIQUE constraint failed")
        /\ Cardinality(RowsByMessageId(messages, handlers[i].ev.id)) = 1

\* C2: the run that loses the race on createMessage reports a NormalizedError
\* of type conflict and status 409; the datastore's raw exception escapes
\* neither processMessage nor handleWebhook.
C2_RaceSurfacesAsConflict ==
    \A i \in 1..Len(handlers) :
        ("insert" \in handlers[i].failed
            /\ RowsByMessageId(messages, handlers[i].ev.id) # {})
        => /\ handlers[i].pc = "rejected"
              => /\ handlers[i].thrown.cls = "AppError"
                 /\ handlers[i].thrown.type = "conflict"
                 /\ handlers[i].thrown.statusCode = 409
           /\ requests[handlers[i].req].error.cls \in {"none", "AppError"}

\* C3: a run whose existence check met a StoredMessage of the inbound id ends
\* at once: no datastore write, no AI call, no download or file creation, no
\* reply attempt, no error.
C3_DuplicateIsNoOp ==
    \A i \in 1..Len(handlers) :
        handlers[i].existed
        => /\ handlers[i].pc = "fulfilled"
           /\ handlers[i].trace = <<>>
           /\ handlers[i].replied = <<>>
           /\ handlers[i].failed = {}
           /\ handlers[i].thrown = NoError
           /\ handlers[i].savedMessageId = 0

\* A re-delivery met the row of an earlier delivery that went on to reply
C3_Witness ==
    \E i, j \in 1..Len(handlers) :
        /\ handlers[i].existed
        /\ handlers[i].pc = "fulfilled"
        /\ handlers[j].ev.id = handlers[i].ev.id
        /\ handlers[j].savedMessageId # 0
        /\ Len(handlers[j].replied) = 1

Downstream ==
    {"ai_call", "insert_event", "update_message", "download", "insert_file",
     "storage_put", "reply"}

StoredBy(h) ==
    /\ h.savedMessageId \in 1..Len(messages)
    /\ messages[h.savedMessageId].messageId = h.ev.id

\* C4: in a run for a new id the StoredMessage insert completes before the
\* first AI call, event insert, download, file creation or reply attempt, and
\* the StoredMessage stays persisted when a later step fails.
C4_PersistFirstNoRollback ==
    \A i \in 1..Len(handlers) :
        LET h == handlers[i]
        IN  /\ (h.pc \in {"quoted", "ai", "persistTool", "persistDirect", "attach",
                          "download", "insertFile", "storagePut", "reply"}
                  \/ \E k \in 1..Len(h.trace) : h.trace[k] \in Downstream)
               => /\ h.trace # <<>>
                  /\ h.trace[1] = "insert_message"
                  /\ StoredBy(h)
            /\ (h.savedMessageId # 0 /\ h.failed # {}) => StoredBy(h)

\* A run whose AI call, event insert or file step failed has ended, and its
\* StoredMessage is still there without a linked event
C4_Witness ==
    \E i \in 1..Len(handlers) :
        /\ handlers[i].pc = "fulfilled"
        /\ handlers[i].failed \cap {"ai", "persistDirect", "download", "storagePut"} # {}
        /\ StoredBy(handlers[i])
        /\ messages[handlers[i].savedMessageId].eventId = 0

\* C5: handleWebhook returns or throws only after every event handler of the
\* batch has settled.
C5_AnswerAfterAllSettled ==
    \A r \in 1..Len(requests) :
        requests[r].answer # NoAnswer => AllSettled(r)

\* C6: when a handler of the batch rejected with anything but the invalid
\* reply token condition, handleWebhook throws and the route answers 5xx.
C6_OtherRejectionAnswers5xx ==
    \A r \in 1..Len(requests) :
        (/\ AllSettled(r)
         /\ \E k \in HandlersOf(handlers, r) :
               /\ handlers[k].pc = "rejected"
               /\ ~includes(handlers[k].thrown.response.message, "Invalid reply token"))
        => /\ requests[r].answer.threw
           /\ requests[r].answer.status >= 500

RejectedOf(r) == { k \in HandlersOf(handlers, r) : handlers[k].pc = "rejected" }

\* C7: when the only failure of a batch is a rejection whose platform message
\* contains "Invalid reply token", handleWebhook does not throw: it returns
\* the sentinel string and the route answers with a non-error status.
C7_ReplyTokenSentinel ==
    \A r \in 1..Len(requests) :
        (/\ AllSettled(r)
         /\ Cardinality(RejectedOf(r)) = 1
         /\ \A k \in RejectedOf(r) :
               includes(handlers[k].thrown.response.message, "Invalid reply token"))
        => /\ ~requests[r].answer.threw
           /\ requests[r].answer.body = "Reply token has expired or invalid"
           /\ requests[r].answer.status = 200

\* A batch of two: the join's push was refused for the reply token, the
\* sibling message was processed
C7_Witness ==
    \E r \in 1..Len(requests) :
        /\ requests[r].size = 2
        /\ AllSettled(r)
        /\ Cardinality(RejectedOf(r)) = 1
        /\ \A k \in RejectedOf(r) :
              includes(handlers[k].thrown.response.message, "Invalid reply token")
        /\ \E k \in HandlersOf(handlers, r) : Len(handlers[k].replied) = 1
        /\ requests[r].answer.body = WEBHOOK_RESPONSE.INVALID_REPLY_TOKEN

CaughtSteps ==
    {"quoted", "ai", "persistTool", "persistDirect", "download", "insertFile",
     "storagePut"}

\* C8: for a persisted message a failure of the quoted-message lookup, the AI
\* call, the event insert or the file download/creation does not leave
\* processMessage: the run attempts one reply that carries the normalized user
\* message, completes normally, and handleWebhook answers "OK".
C8_FailureBecomesReply ==
    \A i \in 1..Len(handlers) :
        LET h == handlers[i]
        IN  (Settled(h) /\ h.failed \cap CaughtSteps # {})
            => /\ h.pc = "fulfilled"
               /\ Len(h.replied) = 1
               /\ h.replied[1].kind = "error"
               /\ (requests[h.req].size = 1
                      => requests[h.req].answer.body = WEBHOOK_RESPONSE.SUCCESS)

\* C9: processMessage attempts at most one reply per inbound message event; a
\* failed attempt is swallowed: no retry, no further write or AI call, and the
\* run completes normally.
C9_ReplyAtMostOnceNoRetry ==
    \A i \in 1..Len(handlers) :
        LET h == handlers[i]
        IN  /\ Len(h.replied) <= 1
            /\ Occurrences(h.trace, "reply") <= 1
            /\ Occurrences(h.trace, "reply") = Len(h.replied)
            /\ "reply" \in h.failed
               => /\ h.pc = "fulfilled"
                  /\ h.thrown = NoError
                  /\ h.trace[Len(h.trace)] = "reply"

\* The platform refused the reply of a run, and the run has ended normally
C9_Witness ==
    \E i \in 1..Len(handlers) :
        /\ "reply" \in handlers[i].failed
        /\ handlers[i].pc = "fulfilled"
        /\ Len(handlers[i].replied) = 1
        /\ requests[handlers[i].req].answer.body = WEBHOOK_RESPONSE.SUCCESS

\* The extraction service answered the run's call without a candidate and no
\* step of the run failed
AnsweredWithoutCandidate(h) ==
    /\ h.ev.mtype = TEXT_MESSAGE_TYPE
    /\ Occurrences(h.trace, "ai_call") = 1
    /\ h.candidate = NoCandidate
    /\ h.failed = {}
    /\ h.pc \in {"attach", "reply", "fulfilled"}

\* C10: for a text message, quoting or not, that the extraction service
\* answers without a candidate, exactly one CalendarEvent is created: title =
\* the raw text of the message, end = start + 1 hour, not all-day, messageId =
\* the external id, groupId = the group/room id (null for personal).
C10_FallbackEvent ==
    \A i \in 1..Len(handlers) :
        AnsweredWithoutCandidate(handlers[i])
        => /\ Cardinality(RowsByMessageId(calendarEvents, handlers[i].ev.id)) = 1
           /\ \A k \in RowsByMessageId(calendarEvents, handlers[i].ev.id) :
                 /\ calendarEvents[k].title = handlers[i].ev.text
                 /\ calendarEvents[k].end = calendarEvents[k].start + 3600
                 /\ calendarEvents[k].allDay = FALSE
                 /\ calendarEvents[k].groupId = GroupOf(handlers[i].ev.source)

\* The run has handed its AI input text to the extraction service
SentToAi(h) == Occurrences(h.trace, "ai_call") >= 1

\* The AI input text of a quoting message, from the rows of table messages
\* at the time processText resolves the quote
FramedInput(rows, ev) ==
    IF RowsByMessageId(rows, ev.quotedMessageId) # {}
      THEN QuotedFraming(
               rows[CHOOSE k \in RowsByMessageId(rows, ev.quotedMessageId) : TRUE].content,
               ev.text)
    ELSE UnresolvedFraming(ev.text)

\* C11: the text sent to the extraction service is the raw text when nothing
\* is quoted; when a message is quoted it is the quoted message's stored
\* content followed by the new text, each under its framing, if a
\* StoredMessage of the quoted id exists when the quote is resolved, and the
\* new text under the "reply to an earlier message" framing if none exists.
\* A quoted message whose own delivery has completed resolves, also when it
\* was a group message that did not mention the bot.
C11_AiInputFraming ==
    /\ [](\A i \in 1..Len(handlers) :
            LET h == handlers[i]
            IN  SentToAi(h)
                => /\ h.ev.quotedMessageId = NULL => h.aiInputText = h.ev.text
                   /\ h.ev.quotedMessageId # NULL
                      => \/ h.aiInputText = UnresolvedFraming(h.ev.text)
                         \/ \E k \in RowsByMessageId(messages, h.ev.quotedMessageId) :
                               h.aiInputText =
                                   QuotedFraming(messages[k].content, h.ev.text))
    /\ [][\A i \in 1..Len(handlers) :
            (handlers[i].pc = "quoted" /\ handlers'[i].pc = "ai")
            => /\ handlers'[i].aiInputText = FramedInput(messages, handlers[i].ev)
               /\ \A j \in 1..Len(handlers) :
                     (/\ handlers[j].ev.id = handlers[i].ev.quotedMessageId
                      /\ handlers[j].pc = "fulfilled")
                     => handlers'[i].aiInputText =
                            QuotedFraming(ContentOf(handlers[j].ev), handlers[i].ev.text)]_vars

\* The quoted group message was delivered without a mention and only saved;
\* the message quoting it was sent to the extraction service with both texts
C11_Witness ==
    \E i, j \in 1..Len(handlers) :
        /\ handlers[j].ev.id = handlers[i].ev.quotedMessageId
        /\ ~isMentioned(handlers[j].ev)
        /\ handlers[j].trace = <<"insert_message">>
        /\ handlers[j].pc = "fulfilled"
        /\ SentToAi(handlers[i])
        /\ handlers[i].aiInputText =
               QuotedFraming(ContentOf(handlers[j].ev), handlers[i].ev.text)

\* The run has gone past the persistence stage
PastPersistence(h) ==
    \/ h.pc \in {"quoted", "ai", "persistTool", "persistDirect", "attach", "download",
                 "insertFile", "storagePut", "reply"}
    \/ \E k \in 1..Len(h.trace) : h.trace[k] \in Downstream

\* C12: a message of any type from a group or room goes past the persistence
\* stage only if it mentions the bot.
C12_MentionFilterAllTypes ==
    \A i \in 1..Len(handlers) :
        (GroupOf(handlers[i].ev.source) # NULL /\ PastPersistence(handlers[i]))
        => isMentioned(handlers[i].ev)

JoinHandlers == { k \in 1..Len(handlers) : handlers[k].ev.type = "join" }

----------------------------------------------------------------------------
(* Properties of the RPC surface, under RpcSpec *)

\* The request was for a procedure that changes or deletes one event
IsMutation(call) == call.method \in {"updateEvent", "deleteEvent"}

\* The event the request names was, when the request arrived, a personal one
OnPersonalEvent(call) == call.before # NoRow /\ call.before.groupId = NULL

\* C14: a request whose procedure name is not listed as None or Optional
\* (Required, unlisted, or no name at all) runs its procedure only with an
\* identity the identity endpoint has verified; without one it is answered
\* with status 401 and the procedure does not run.
C14_RequiredNeedsVerifiedIdentity ==
    \A k \in 1..Len(calls) :
        authStrategy(calls[k].method) = AUTH_STRATEGY.REQUIRED
        => /\ calls[k].executed => calls[k].identity # NULL
           /\ calls[k].identity = NULL
              => /\ ~calls[k].passed
                 /\ ~calls[k].executed
                 /\ calls[k].status = 401

\* C15: under the Optional strategy a request without a verified identity
\* (no header, another scheme, a token the endpoint rejects or cannot check)
\* reaches its procedure with the identity unset; under the None strategy
\* the identity endpoint is not asked and the identity is unset, also when
\* the request carries a valid token.
C15_OptionalAndNone ==
    \A k \in 1..Len(calls) :
        /\ (authStrategy(calls[k].method) = AUTH_STRATEGY.OPTIONAL
               /\ calls[k].identity = NULL)
           => /\ calls[k].liffUser = NULL
              /\ calls[k].passed
              /\ (calls[k].method = "createEvent" /\ calls[k].input.title = <<>>)
                 \/ calls[k].executed
        /\ authStrategy(calls[k].method) = AUTH_STRATEGY.NONE
           => /\ ~calls[k].asked
              /\ calls[k].liffUser = NULL
              /\ calls[k].passed
              /\ calls[k].executed

\* A None request with a valid token ran anonymously, and an Optional request
\* whose token the endpoint did not verify ran anonymously
C15_Witness ==
    \E k, j \in 1..Len(calls) :
        /\ authStrategy(calls[k].method) = AUTH_STRATEGY.NONE
        /\ calls[k].identity # NULL
        /\ calls[k].liffUser = NULL
        /\ calls[k].executed
        /\ authStrategy(calls[j].method) = AUTH_STRATEGY.OPTIONAL
        /\ calls[j].asked
        /\ calls[j].identity = NULL
        /\ calls[j].liffUser = NULL
        /\ calls[j].executed

\* What a successful request leaves of the event it names
Expected(call) ==
    IF call.method = "deleteEvent" THEN NoRow ELSE SetEvent(call.before, call.input)

\* C16: updateEvent or deleteEvent on a personal event by a caller whose
\* verified identity is not the owner (or who is anonymous) fails with an
\* error of type authorization and status 403 and leaves the event as it
\* was; the same request by the owner succeeds.
C16_PersonalEventForbidden ==
    \A k \in 1..Len(calls) :
        (IsMutation(calls[k]) /\ OnPersonalEvent(calls[k]))
        => /\ calls[k].identity # calls[k].before.userId
              => /\ calls[k].status = 403
                 /\ calls[k].type = "authorization"
                       \/ calls[k].classified = "authorization"
                 /\ calls[k].after = calls[k].before
           /\ (calls[k].identity = calls[k].before.userId
                  /\ calls[k].input.userId = calls[k].before.userId)
              => /\ calls[k].status = 200
                 /\ calls[k].after = Expected(calls[k])

\* The request carries start and end
CompleteUpdate(call) == 0 \notin {call.input.start, call.input.end}

Identities == {NULL, "U1", "U2"}

\* C18: for updateEvent and deleteEvent the ownership check is skipped
\* exactly when the persisted groupId of the target is set; two requests
\* that differ only in the groupId they supply get the same decision, and a
\* request that labels a personal event as group-scoped is still refused
\* for a caller who is not the owner.
C18_ScopeFromPersistedRecord ==
    /\ \A liffUser \in Identities :
       \A a, b \in Inputs("updateEvent", calendarEvents) :
          (a.id = b.id /\ a.userId = b.userId /\ a.title = b.title)
          => /\ OwnershipCheck(getEvent(calendarEvents, a.id), liffUser, a)
                  = OwnershipCheck(getEvent(calendarEvents, b.id), liffUser, b)
             /\ OwnershipCheck(getEvent(calendarEvents, a.id), liffUser, a) = "skipped"
                  <=> getEvent(calendarEvents, a.id).groupId # NULL
    /\ \A k \in 1..Len(calls) :
          (/\ IsMutation(calls[k]) /\ OnPersonalEvent(calls[k])
           /\ calls[k].input.groupId # NULL
           /\ calls[k].liffUser # calls[k].before.userId)
          => /\ calls[k].status # 200
             /\ calls[k].after = calls[k].before

\* A caller who is not the owner named a personal event with a groupId, and
\* was refused; the owner's request with the same label went through
C18_Witness ==
    \E k, j \in 1..Len(calls) :
        /\ IsMutation(calls[k]) /\ OnPersonalEvent(calls[k])
        /\ calls[k].input.groupId = "G1"
        /\ calls[k].liffUser = "U2"
        /\ calls[k].before.userId = "U1"
        /\ calls[k].status # 200
        /\ calls[k].after = calls[k].before
        /\ IsMutation(calls[j]) /\ OnPersonalEvent(calls[j])
        /\ calls[j].input.groupId = "G1"
        /\ calls[j].liffUser = "U1"
        /\ calls[j].status = 200

\* C19: a request changes or deletes a personal event only if its verified
\* caller identity is the userId that owns the event.
C19_PersonalEventOnlyByOwner ==
    [][\A id \in 1..Len(calendarEvents) :
          (/\ getEvent(calendarEvents, id) # NoRow
           /\ calendarEvents[id].groupId = NULL
           /\ calendarEvents'[id] # calendarEvents[id])
          => /\ Len(calls') = Len(calls) + 1
             /\ calls'[Len(calls')].identity = calendarEvents[id].userId]_vars

\* The owner has changed a personal event, and a request of another verified
\* user that named the same event changed nothing
C19_Witness ==
    \E k, j \in 1..Len(calls) :
        /\ IsMutation(calls[k]) /\ OnPersonalEvent(calls[k])
        /\ calls[k].after # calls[k].before
        /\ calls[k].identity = calls[k].before.userId
        /\ IsMutation(calls[j]) /\ OnPersonalEvent(calls[j])
        /\ calls[j].identity \notin {NULL, calls[j].before.userId}
        /\ calls[j].input.userId = calls[j].identity
        /\ calls[j].after = calls[j].before

\* C20: a createEvent request without title is rejected before the handler
\* runs, with type validation, status 400 and a userMessage that names the
\* field "title".
C20_MissingTitleNamed ==
    \A k \in 1..Len(calls) :
        (calls[k].method = "createEvent" /\ calls[k].input.title = <<>>)
        => /\ ~calls[k].executed
           /\ calls[k].type = "validation"
           /\ calls[k].status = 400
           /\ includes(calls[k].userMessage, "title")

----------------------------------------------------------------------------
(* Properties of the error normalizer, under ErrSpec *)

\* The ten types of a normalized error and the status fixed for each
StatusOfType ==
    [t \in {"validation", "authentication", "authorization", "not_found", "conflict",
            "rate_limit", "external_api", "database", "ai_service", "internal"} |->
        CASE t = "validation" -> {400}
          [] t = "authentication" -> {401}
          [] t = "authorization" -> {403}
          [] t = "not_found" -> {404}
          [] t = "conflict" -> {409}
          [] t = "external_api" -> {502}
          [] t = "ai_service" -> {503}
          [] t \in {"internal", "database"} -> {500}
          [] OTHER -> {429, 500}]

WellFormed(normalized) ==
    /\ normalized.cls = "AppError"
    /\ normalized.type \in DOMAIN StatusOfType
    /\ normalized.statusCode \in StatusOfType[normalized.type]

\* C21: for every value handed to it (an AppError, a schema-validation
\* error, an Error of any shape, a value that is no Error) ErrorHandler.handle
\* returns, without raising, one AppError whose type is one of the ten types
\* and whose status is the one fixed for that type.
C21_HandleIsTotal ==
    \A k \in 1..Len(calls) : WellFormed(calls[k].normalized)

\* The rules of the classification, and whether an error matches a rule
Rules == {"normalized", "schema", "external", "datastore", "carried", "fallback"}

Matches(error, rule) ==
    CASE rule = "normalized" -> error.cls = "AppError"
      [] rule = "schema" -> error.cls = "ZodError"
      [] rule = "external" -> error.cls = "Error" /\ error.response.present
      [] rule = "datastore" ->
           error.cls = "Error" /\ \E p \in D1Probes : p \in error.message \cup error.stack
      [] rule = "carried" ->
           error.cls = "Error" /\ error.statusCode # 0 /\ error.code # NULL
      [] OTHER -> TRUE

\* The first rule of an order that the error matches
FirstMatch(error, order) ==
    order[CHOOSE i \in 1..Len(order) :
             /\ Matches(error, order[i])
             /\ \A j \in 1..(i - 1) : ~Matches(error, order[j])]

\* The rules whose result an AppError can be, told by its code and message
ProducedBy(error, normalized) ==
    { rule \in Rules :
        CASE rule = "normalized" -> normalized = error
          [] rule = "schema" -> includes(normalized.message, "Zod validation failed:")
          [] rule = "external" ->
               normalized.code \in {"INVALID_REPLY_TOKEN", "RATE_LIMIT",
                                    "INVALID_ACCESS_TOKEN", "HTTP_400", "HTTP_404",
                                    "HTTP_500", "NETWORK_ERROR"}
          [] rule = "datastore" ->
               normalized.code \in {"UNIQUE_CONSTRAINT", "FOREIGN_KEY_CONSTRAINT",
                                    "NOT_NULL_CONSTRAINT", "CHECK_CONSTRAINT",
                                    "DATABASE_ERROR"}
          [] rule = "carried" ->
               \/ error.code # NULL /\ normalized.code = error.code
                     /\ normalized.message = error.message
               \/ error.zodError.present
                     /\ includes(normalized.message, "Zod validation failed:")
          [] OTHER ->
               /\ normalized.code \in {"VALIDATION_ERROR", "AUTH_TOKEN_ERROR",
                                       "PERMISSION_ERROR", "RESOURCE_NOT_FOUND",
                                       "INTERNAL_ERROR", "UNKNOWN_ERROR"}
               /\ ~includes(normalized.message, "Zod validation failed:") }

ClassifiedInOrder(order) ==
    \A k \in 1..Len(calls) :
        calls[k].normalized.cls = "AppError"
        => FirstMatch(calls[k].error, order) \in ProducedBy(calls[k].error, calls[k].normalized)

\* C22 as stated: an error that matches several rules is classified by the
\* earliest of them in the order already-normalized, schema validation,
\* external API (response object), datastore constraint, carried status and
\* code, substring fallback.
C22_FirstMatchInStatedOrder ==
    ClassifiedInOrder(<<"normalized", "schema", "external", "datastore", "carried",
                        "fallback">>)

\* C22 as amended: an error that matches several rules is classified by the
\* earliest of them in the order already-normalized, schema validation,
\* carried status and code, external API (response object), datastore
\* constraint, substring fallback.
C22_FirstMatchInCodeOrder ==
    ClassifiedInOrder(<<"normalized", "schema", "carried", "external", "datastore",
                        "fallback">>)

\* An error that has a response object, a datastore probe in its stack and
\* a carried status and code was classified by what it carries
C22_Witness ==
    \E k \in 1..Len(calls) :
        /\ Matches(calls[k].error, "external")
        /\ Matches(calls[k].error, "datastore")
        /\ Matches(calls[k].error, "carried")
        /\ ~calls[k].error.zodError.present
        /\ calls[k].error.statusCode = 409
        /\ calls[k].normalized.type = "conflict"
        /\ calls[k].normalized.code = "CONFLICT"

\* C24: ErrorHandler.handle applied to an AppError returns that AppError
\* with type, code, status and user message unchanged; so normalizing the
\* result of a normalization again gives the same result.
C24_HandleIdempotent ==
    \A k \in 1..Len(calls) :
        calls[k].error.cls = "AppError"
        => /\ calls[k].normalized = calls[k].error
           /\ calls[k].normalized.type = calls[k].error.type
           /\ calls[k].normalized.code = calls[k].error.code
           /\ calls[k].normalized.statusCode = calls[k].error.statusCode
           /\ calls[k].normalized.userMessage = calls[k].error.userMessage

\* An Error carrying status 404 and a code was normalized to not_found and,
\* re-thrown, normalized again to the same AppError
C24_Witness ==
    \E k, j \in 1..Len(calls) :
        /\ k < j
        /\ calls[k].error.cls = "Error"
        /\ calls[k].error.statusCode = 404
        /\ calls[k].normalized.type = "not_found"
        /\ calls[j].error = calls[k].normalized
        /\ calls[j].normalized = calls[k].normalized

----------------------------------------------------------------------------
(* Properties of the entry of a request, under EntrySpec *)

RequiredConfiguration ==
    {"LINE_ACCESS_TOKEN", "LINE_CHANNEL_SECRET", "GOOGLE_AI_API_KEY", "DB", "APP_STORAGE"}

Missing(env) == \E key \in RequiredConfiguration : env[key] = NULL

\* C23: a request that comes while a required configuration value (platform
\* access token, channel secret, AI key, datastore, object storage) is
\* missing is answered with status 500; no handler is started for it, the
\* identity endpoint is not asked, no procedure runs, and the step that
\* takes the request changes no table, file store or push.
C23_MisconfiguredAnswers500 ==
    /\ [](/\ \A r \in 1..Len(requests) :
                Missing(requests[r].env)
                => /\ requests[r].answer.status = 500
                   /\ \A i \in 1..Len(handlers) : handlers[i].req # r
          /\ \A k \in 1..Len(calls) :
                Missing(calls[k].env)
                => /\ calls[k].status = 500
                   /\ ~calls[k].asked
                   /\ ~calls[k].passed
                   /\ ~calls[k].executed)
    /\ [][(\/ /\ Len(requests') > Len(requests)
              /\ Missing(requests'[Len(requests')].env)
           \/ /\ Len(calls') > Len(calls)
              /\ Missing(calls'[Len(calls')].env))
          => UNCHANGED <<messages, calendarEvents, files, storage, pushes, handlers>>]_vars

\* A webhook request with two events came without the datastore binding and
\* was answered 500 with no handler started
C23_Witness ==
    \E r \in 1..Len(requests) :
        /\ requests[r].env["DB"] = NULL
        /\ requests[r].size = 2
        /\ requests[r].answer.status = 500
        /\ handlers = <<>>
        /\ messages = <<>>

----------------------------------------------------------------------------
(* Properties of event materialization, under Spec *)

\* C25: when attaching the new eventId to the stored message fails after
\* the CalendarEvent was persisted, the event stays persisted and the reply
\* attempted is the confirmation message, as when the attach succeeds, not
\* an error message.
C25_AttachIsBestEffort ==
    \A i \in 1..Len(handlers) :
        "attach" \in handlers[i].failed
        => /\ handlers[i].createdEvent \in 1..Len(calendarEvents)
           /\ calendarEvents[handlers[i].createdEvent].messageId = handlers[i].ev.id
           /\ handlers[i].responseText.kind = "event"

----------------------------------------------------------------------------
(* Properties of event updates, under RpcSpec *)

\* C27: a group event is updated or deleted only by a request that supplies
\* the event's own group id; a request that names only the event id, or
\* supplies another group id, does not change it.
C27_GroupEventNeedsGroupId ==
    \A k \in 1..Len(calls) :
        (/\ IsMutation(calls[k])
         /\ calls[k].before # NoRow
         /\ calls[k].before.groupId # NULL
         /\ calls[k].after # calls[k].before)
        => calls[k].method = "updateEvent" /\ calls[k].input.groupId = calls[k].before.groupId

\* C28: updateEvent changes only what the request asks to change: a field
\* the request omits (title, start, end) keeps its persisted value, and the
\* event's userId and groupId are after the update what they were before.
C28_UpdateKeepsTheRest ==
    \A k \in 1..Len(calls) :
        (calls[k].method = "updateEvent" /\ calls[k].before # NoRow)
        => /\ calls[k].after # NoRow
           /\ calls[k].after.userId = calls[k].before.userId
           /\ calls[k].after.groupId = calls[k].before.groupId
           /\ calls[k].input.title = <<>> => calls[k].after.title = calls[k].before.title
           /\ calls[k].input.start = 0 => calls[k].after.start = calls[k].before.start
           /\ calls[k].input.end = 0 => calls[k].after.end = calls[k].before.end

----------------------------------------------------------------------------
(* Properties of the error boundary of publicProcedure, under OrpcSpec *)

\* The places of an error that extractZodErrorFromORPC looks at, in the
\* order the description gives
Probes ==
    <<"direct", "cause", "original", "data", "data.cause", "data.issues",
      "data.key", "details", "issues">>

\* The first value under a key of data that is a ZodError or has issues
FirstNested(data) ==
    LET at == { k \in 1..Len(data.nested) :
                  data.nested[k].zod \/ data.nested[k].hasIssues }
    IN  IF at = {} THEN Nothing
        ELSE data.nested[CHOOSE k \in at : \A j \in at : k <= j]

\* What a probe finds in an error: the value it would return, or Nothing
ProbeFinds(error, probe) ==
    LET data == Property(error, "data", NoData)
        details == Property(error, "details", NoDetails)
    IN  CASE probe = "direct" ->
               IF error.cls = "ZodError" THEN ZodValue(error.issues) ELSE Nothing
          [] probe = "cause" ->
               IF Property(error, "cause", Nothing).zod THEN error.cause ELSE Nothing
          [] probe = "original" ->
               IF Property(error, "original", Nothing).zod THEN error.original
               ELSE Nothing
          [] probe = "data" ->
               IF data.present /\ data.zod THEN ZodValue(data.issues) ELSE Nothing
          [] probe = "data.cause" ->
               IF data.present /\ data.cause.zod THEN data.cause ELSE Nothing
          [] probe = "data.issues" ->
               IF data.present /\ data.hasIssues THEN IssuesHolder(data.issues)
               ELSE Nothing
          [] probe = "data.key" ->
               IF data.present THEN FirstNested(data) ELSE Nothing
          [] probe = "details" ->
               IF details.present /\ details.length > 0 THEN details.first
               ELSE Nothing
          [] probe = "issues" ->
               IF Property(error, "hasIssues", FALSE) THEN IssuesHolder(error.issues)
               ELSE Nothing

Matching(error) ==
    { i \in 1..Len(Probes) : ProbeFinds(error, Probes[i]) # Nothing }

\* The field of the synthesized issue: the first known required-field name
\* that the serialized error mentions, else the generic field
ExpectedField(error) ==
    LET known == <<"userId", "groupId", "fileName", "fileType", "fileSize", "fileData">>
        mentioned == { i \in 1..Len(known) :
                         known[i] \in Property(error, "mentions", {}) }
    IN  IF mentioned = {} THEN "input parameters"
        ELSE known[CHOOSE i \in mentioned : \A j \in mentioned : i <= j]

\* The error comes from the validation of an input against a schema: it is a
\* ZodError, it is the framework's 'Input validation failed' error, or it
\* carries a ZodError or a list of issues at one of the probed places
OriginatesFromValidation(error) ==
    \/ error.message = {"Input validation failed"}
    \/ Matching(error) # {}

ValidationTyped(error) ==
    /\ error.cls = "ORPCError"
    /\ error.code = "BAD_REQUEST"
    /\ error.data.type = "validation"

\* C29: the error boundary of publicProcedure turns an error into a
\* validation-typed BAD_REQUEST error only when the error originates from
\* input-schema validation; every other error thrown while a procedure runs,
\* an error of the framework's own error class included, propagates with its
\* original type and message
C29_OnlyValidationConverted ==
    \A k \in 1..Len(calls) :
        (calls[k].op = "publicProcedure"
            /\ ~OriginatesFromValidation(calls[k].error))
        => /\ ~ValidationTyped(calls[k].result)
           /\ calls[k].result = calls[k].error

\* C29, the part that holds: an error that is neither of the framework's
\* class nor named ValidationError and has no validation origin propagates
\* unchanged
C29_OtherClassesPropagate ==
    \A k \in 1..Len(calls) :
        (calls[k].op = "publicProcedure"
            /\ ~OriginatesFromValidation(calls[k].error)
            /\ calls[k].error.cls \notin {"ORPCError", "ValidationError"}
            /\ calls[k].error.name # "ValidationError")
        => calls[k].result = calls[k].error

\* C30: extractZodErrorFromORPC tries its probes in the fixed order direct
\* instance, cause, original, data (as instance, data.cause, data.issues,
\* nested keys), details[0].issues, own issues, and returns what the first
\* matching probe finds; only when no probe matches does it synthesize
\* exactly one issue, whose field is the first known required-field name
\* found in the serialized error, or the generic field when none is found
C30_FirstMatchingProbe ==
    \A k \in 1..Len(calls) :
        calls[k].op = "extractZodErrorFromORPC"
        => LET error == calls[k].error
               result == calls[k].result
               matching == Matching(error)
           IN  IF matching # {}
                 THEN /\ result.cls = "ZodError"
                      /\ result.issues =
                           ProbeFinds(error,
                               Probes[CHOOSE i \in matching :
                                          \A j \in matching : i <= j]).issues
               ELSE result.cls = "ZodError"
                    => /\ Len(result.issues) = 1
                       /\ result.issues[1].path = <<ExpectedField(error)>>

\* An error where three later probes match and the first of them, a key of
\* data, gives the result
C30_Witness ==
    \E k \in 1..Len(calls) :
        /\ calls[k].op = "extractZodErrorFromORPC"
        /\ Matching(calls[k].error) = {7, 8, 9}
        /\ calls[k].result.issues = <<Found("data.key")>>

====
